---- MODULE Spec2Model ----
(***************************************************************************)
(* Dependency-graph construction (dependency_graph.py) and the upgrade     *)
(* strategy engine (upgrade_strategy.py) of falcon_fix_v3.                 *)
(*                                                                         *)
(* Text representation.  A Python str is a sequence of tokens.  A token is *)
(* a TLA+ string standing for one character, or for a run of characters    *)
(* none of which the code ever inspects (a "word" such as a group or an    *)
(* artifact name: no tree glyph, no whitespace, no colon, no parenthesis,  *)
(* no digit).  The four box-drawing glyphs are written "VERT" (U+2502),    *)
(* "TEE" (U+251C), "ELBOW" (U+2514) and "HORIZ" (U+2500).  Version strings *)
(* are written character by character.                                     *)
(*                                                                         *)
(* A component key "group:artifact" is held as the result of splitting it  *)
(* on ':', i.e. << group, artifact >>, each part a token sequence; joining *)
(* with ':' and splitting on ':' are inverse to each other, so equality of *)
(* keys is equality of these sequences.                                    *)
(***************************************************************************)
EXTENDS Integers, Sequences, FiniteSets, TLC

VARIABLES
    nodes,          \* DependencyGraph.nodes: key -> DependencyNode
    order,          \* insertion order of the dict DependencyGraph.nodes
    root_project,   \* DependencyGraph.root_project (NoneGA = None)
    depth_parents,  \* local of parse_tree_text: depth -> key
    pos,            \* number of lines of the text the loop has consumed
    blank_tail,     \* the line consumed last was blank
    pc,             \* "parsing" (inside parse_tree_text), "parsed" (the graph is
                    \* built, no call under way) or "answered" (a query returned)
    req,            \* arguments of the last query
    rec,            \* result of the last query
    messages,       \* local of analyze_vulnerability: the conversation
    iterations,     \* number of model requests analyze_vulnerability has issued
    pending,        \* tool calls of the current round not yet executed
    response,       \* the last response of the model
    results,        \* local of main: key -> VersionRecommendation
    vuln_index      \* number of vulnerabilities main's loop is through with

vars == << nodes, order, root_project, depth_parents, pos, blank_tail, pc, req, rec, messages, iterations, pending, response, results, vuln_index >>

\* the graph and the locals of parse_tree_text
graph_vars == << nodes, order, root_project, depth_parents, pos, blank_tail >>

\* the state of the analysis phase of main.py
analysis_vars == << messages, iterations, pending, response, results, vuln_index >>

(***************************************************************************)
(* Bounds of the model.                                                    *)
(***************************************************************************)
MaxLines == 4

(***************************************************************************)
(* Characters.                                                             *)
(***************************************************************************)
VERT == "VERT"
TEE == "TEE"
ELBOW == "ELBOW"
HORIZ == "HORIZ"
SPACE == " "

Whitespace == { SPACE }

\* the character class [VERT TEE ELBOW HORIZ \s] of both regular expressions
PrefixChars == { VERT, TEE, ELBOW, HORIZ } \cup Whitespace

Digits == { "0", "1", "2", "3", "4", "5", "6", "7", "8", "9" }

DigitValue(c) ==
    CASE c = "0" -> 0 [] c = "1" -> 1 [] c = "2" -> 2 [] c = "3" -> 3
      [] c = "4" -> 4 [] c = "5" -> 5 [] c = "6" -> 6 [] c = "7" -> 7
      [] c = "8" -> 8 [] c = "9" -> 9

(***************************************************************************)
(* Python str operations on token sequences.                               *)
(***************************************************************************)
Drop(s, n) == SubSeq(s, n + 1, Len(s))

\* length of the longest leading run of s with tokens in set cls
RECURSIVE LeadingRun(_, _)
LeadingRun(s, cls) ==
    IF s = << >> \/ Head(s) \notin cls THEN 0
    ELSE 1 + LeadingRun(Tail(s), cls)

RECURSIVE TrailingRun(_, _)
TrailingRun(s, cls) ==
    IF s = << >> \/ s[Len(s)] \notin cls THEN 0
    ELSE 1 + TrailingRun(SubSeq(s, 1, Len(s) - 1), cls)

\* str.strip()
Strip(s) ==
    LET l == LeadingRun(s, Whitespace)
        t == Drop(s, l)
    IN SubSeq(t, 1, Len(t) - TrailingRun(t, Whitespace))

\* str.count(c)
RECURSIVE Count(_, _)
Count(s, c) ==
    IF s = << >> THEN 0
    ELSE (IF Head(s) = c THEN 1 ELSE 0) + Count(Tail(s), c)

\* sub in s
Contains(s, sub) ==
    \E i \in 1..(Len(s) - Len(sub) + 1) : SubSeq(s, i, i + Len(sub) - 1) = sub

\* str.replace(pat, ""): every non-overlapping occurrence, left to right
RECURSIVE Remove(_, _)
Remove(s, pat) ==
    IF Len(s) < Len(pat) \/ pat = << >> THEN s
    ELSE IF SubSeq(s, 1, Len(pat)) = pat THEN Remove(Drop(s, Len(pat)), pat)
    ELSE << Head(s) >> \o Remove(Tail(s), pat)

\* str.split(sep) for a one-character separator
RECURSIVE Split(_, _)
Split(s, sep) ==
    IF \A i \in 1..Len(s) : s[i] # sep THEN << s >>
    ELSE LET k == CHOOSE i \in 1..Len(s) :
                      s[i] = sep /\ \A j \in 1..(i - 1) : s[j] # sep
         IN << SubSeq(s, 1, k - 1) >> \o Split(Drop(s, k), sep)

\* re.sub(r'\s*\([^)]*\)\s*', '', s): at each position the match is the
\* whitespace run, '(', everything up to the first ')', and the whitespace
\* run after it; where there is no match the character is kept.
RECURSIVE RemoveParenthetical(_)
RemoveParenthetical(s) ==
    IF s = << >> THEN << >>
    ELSE LET w == LeadingRun(s, Whitespace)
             r == Drop(s, w)
         IN IF r # << >> /\ Head(r) = "(" /\ \E i \in 2..Len(r) : r[i] = ")"
            THEN LET k == CHOOSE i \in 2..Len(r) :
                              r[i] = ")" /\ \A j \in 2..(i - 1) : r[j] # ")"
                     a == Drop(r, k)
                 IN RemoveParenthetical(Drop(a, LeadingRun(a, Whitespace)))
            ELSE << Head(s) >> \o RemoveParenthetical(Tail(s))

(***************************************************************************)
(* DependencyGraph._calculate_depth                                        *)
(***************************************************************************)
\* _calculate_depth as it would be if it counted the glyphs of the whole line
CalculateDepthWholeLine(line) ==
    LET vertical_bars == Count(line, VERT)
        has_branch == IF Count(line, TEE) > 0 \/ Count(line, ELBOW) > 0
                      THEN 1 ELSE 0
    IN vertical_bars + has_branch

_calculate_depth(line) ==
    LET prefix == SubSeq(line, 1, LeadingRun(line, PrefixChars))
        vertical_bars == Count(prefix, VERT)
        has_branch == IF Count(prefix, TEE) > 0 \/ Count(prefix, ELBOW) > 0
                      THEN 1 ELSE 0
    IN vertical_bars + has_branch

(***************************************************************************)
(* DependencyGraph._extract_ga_version: << ga, version >>; None is NoneGA  *)
(* for a key (no key splits into zero parts) and NoVersion for a version.  *)
(***************************************************************************)
NoneGA == << >>

NoVersion == << "<None>" >>

\* _extract_ga_version as it would be if two colon-separated fields were
\* enough
ExtractGaVersionTwoFields(line) ==
    LET clean == Strip(RemoveParenthetical(Drop(line, LeadingRun(line, PrefixChars))))
        parts == Split(clean, ":")
    IN IF clean = << >> THEN << NoneGA, NoVersion >>
       ELSE IF Len(parts) >= 2
            THEN << << parts[1], parts[2] >>, parts[Len(parts)] >>
            ELSE << NoneGA, NoVersion >>

\* _extract_ga_version as it would be if the version were the third field
ExtractGaVersionThirdField(line) ==
    LET clean == Strip(RemoveParenthetical(Drop(line, LeadingRun(line, PrefixChars))))
        parts == Split(clean, ":")
    IN IF clean = << >> THEN << NoneGA, NoVersion >>
       ELSE IF Len(parts) >= 3
            THEN << << parts[1], parts[2] >>, parts[3] >>
            ELSE << NoneGA, NoVersion >>

_extract_ga_version(line) ==
    LET clean == Strip(RemoveParenthetical(Drop(line, LeadingRun(line, PrefixChars))))
        parts == Split(clean, ":")
    IN IF clean = << >> THEN << NoneGA, NoVersion >>
       ELSE IF Len(parts) >= 3
            THEN << << parts[1], parts[2] >>, parts[Len(parts)] >>
            ELSE << NoneGA, NoVersion >>

(***************************************************************************)
(* upgrade_strategy.py: version utilities                                  *)
(***************************************************************************)
SNAPSHOT == << "S", "N", "A", "P", "S", "H", "O", "T" >>
Final == << "F", "i", "n", "a", "l" >>
RELEASE == << "R", "E", "L", "E", "A", "S", "E" >>
GA == << "G", "A" >>

qualifiers == << SNAPSHOT, Final, RELEASE, GA >>

\* int(s) for a non-empty run of decimal digits
RECURSIVE ToInt(_)
ToInt(s) ==
    IF s = << >> THEN 0
    ELSE 10 * ToInt(SubSeq(s, 1, Len(s) - 1)) + DigitValue(s[Len(s)])

\* re.findall(r'\d+', s): the maximal digit runs of s, left to right
RECURSIVE DigitRuns(_)
DigitRuns(s) ==
    IF s = << >> THEN << >>
    ELSE LET n == LeadingRun(s, Digits)
         IN IF n = 0 THEN DigitRuns(Tail(s))
            ELSE << SubSeq(s, 1, n) >> \o DigitRuns(Drop(s, n))

parse_version(version) ==
    LET found == { i \in 1..Len(qualifiers) : Contains(version, qualifiers[i]) }
        first == CHOOSE i \in found : \A j \in found : i <= j
        qualifier == IF found = {} THEN << >> ELSE qualifiers[first]
        clean_version ==
            IF found = {} THEN version
            ELSE Remove(Remove(version, << "-" >> \o qualifier), << "." >> \o qualifier)
        parts == DigitRuns(clean_version)
        major == IF Len(parts) > 0 THEN ToInt(parts[1]) ELSE 0
        minor == IF Len(parts) > 1 THEN ToInt(parts[2]) ELSE 0
        patch == IF Len(parts) > 2 THEN ToInt(parts[3]) ELSE 0
    IN << major, minor, patch, qualifier >>

is_same_major_minor(v1, v2) ==
    LET p1 == parse_version(v1)
        p2 == parse_version(v2)
    IN p1[1] = p2[1] /\ p1[2] = p2[2]

\* is_same_major as it would be if it compared the minor component too
IsSameMajorComparesMinor(v1, v2) ==
    LET p1 == parse_version(v1)
        p2 == parse_version(v2)
    IN p1[1] = p2[1] /\ p1[2] = p2[2]

is_same_major(v1, v2) ==
    LET p1 == parse_version(v1)
        p2 == parse_version(v2)
    IN p1[1] = p2[1]

\* version_jump_type as it would be if the minor were compared first
VersionJumpTypeMinorFirst(from_v, to_v) ==
    LET p1 == parse_version(from_v)
        p2 == parse_version(to_v)
    IN IF p1[2] # p2[2] THEN "minor"
       ELSE IF p1[1] # p2[1] THEN "major"
       ELSE "patch"

version_jump_type(from_v, to_v) ==
    LET p1 == parse_version(from_v)
        p2 == parse_version(to_v)
    IN IF p1[1] # p2[1] THEN "major"
       ELSE IF p1[2] # p2[2] THEN "minor"
       ELSE "patch"

(***************************************************************************)
(* Rationals n/d (d > 0) in lowest terms stand for the float scores.       *)
(***************************************************************************)
RECURSIVE GCD(_, _)
GCD(a, b) == IF b = 0 THEN a ELSE GCD(b, a % b)

Rat(n, d) ==
    IF n = 0 THEN << 0, 1 >>
    ELSE LET g == GCD(n, d) IN << n \div g, d \div g >>

RatMul(x, y) == Rat(x[1] * y[1], x[2] * y[2])

RatSub(x, y) ==
    LET n == x[1] * y[2] - y[1] * x[2]
        d == x[2] * y[2]
    IN IF n >= 0 THEN Rat(n, d)
       ELSE LET m == Rat(0 - n, d) IN << 0 - m[1], m[2] >>

RatLess(x, y) == x[1] * y[2] < y[1] * x[2]

RatMin(x, y) == IF RatLess(y, x) THEN y ELSE x

RatMax(x, y) == IF RatLess(x, y) THEN y ELSE x

Zero == Rat(0, 1)

One == Rat(1, 1)

(***************************************************************************)
(* DependencyNode                                                          *)
(***************************************************************************)
DependencyNode(ga, version, depth, is_direct) ==
    [ ga |-> ga, version |-> version, depth |-> depth, is_direct |-> is_direct,
      parents |-> << >>, children |-> << >>,
      centrality_score |-> Zero, impact_score |-> Zero ]

InSeq(x, s) == \E i \in 1..Len(s) : s[i] = x

\* dict with key k set to v
Put(f, k, v) == [ x \in (DOMAIN f) \cup { k } |-> IF x = k THEN v ELSE f[x] ]

EmptyDict == [ x \in {} |-> x ]

(***************************************************************************)
(* DependencyGraph._add_node, on the pair (nodes, order); the result is    *)
(* the pair after the call.                                                *)
(***************************************************************************)
\* _add_node as it would be if the last sighting of a key replaced the
\* stored depth, version and directness
AddNodeLastWins(g, ga, version, depth, is_direct, parent) ==
    LET created == ga \notin DOMAIN g.nodes
        n1 == IF created
              THEN Put(g.nodes, ga, DependencyNode(ga, version, depth, is_direct))
              ELSE [ g.nodes EXCEPT ![ga].version = version, ![ga].depth = depth,
                                    ![ga].is_direct = is_direct ]
        o1 == IF created THEN Append(g.order, ga) ELSE g.order
        node == n1[ga]
        link == parent # NoneGA /\ ~InSeq(parent, node.parents)
        n2 == IF link
              THEN [ n1 EXCEPT ![ga].parents = Append(@, parent) ]
              ELSE n1
        n3 == IF link /\ parent \in DOMAIN n2 /\ ~InSeq(ga, n2[parent].children)
              THEN [ n2 EXCEPT ![parent].children = Append(@, ga) ]
              ELSE n2
    IN [ nodes |-> n3, order |-> o1 ]

\* _add_node as it would be without the two membership tests
AddNodeNoMembershipTest(g, ga, version, depth, is_direct, parent) ==
    LET created == ga \notin DOMAIN g.nodes
        n1 == IF created
              THEN Put(g.nodes, ga, DependencyNode(ga, version, depth, is_direct))
              ELSE g.nodes
        o1 == IF created THEN Append(g.order, ga) ELSE g.order
        link == parent # NoneGA
        n2 == IF link
              THEN [ n1 EXCEPT ![ga].parents = Append(@, parent) ]
              ELSE n1
        n3 == IF link /\ parent \in DOMAIN n2
              THEN [ n2 EXCEPT ![parent].children = Append(@, ga) ]
              ELSE n2
    IN [ nodes |-> n3, order |-> o1 ]

\* _add_node as it would be if a later sighting as a direct dependency
\* marked the node as direct
AddNodeDirectIfEverDirect(g, ga, version, depth, is_direct, parent) ==
    LET created == ga \notin DOMAIN g.nodes
        n1 == IF created
              THEN Put(g.nodes, ga, DependencyNode(ga, version, depth, is_direct))
              ELSE [ g.nodes EXCEPT ![ga].is_direct = @ \/ is_direct ]
        o1 == IF created THEN Append(g.order, ga) ELSE g.order
        node == n1[ga]
        link == parent # NoneGA /\ ~InSeq(parent, node.parents)
        n2 == IF link
              THEN [ n1 EXCEPT ![ga].parents = Append(@, parent) ]
              ELSE n1
        n3 == IF link /\ parent \in DOMAIN n2 /\ ~InSeq(ga, n2[parent].children)
              THEN [ n2 EXCEPT ![parent].children = Append(@, ga) ]
              ELSE n2
    IN [ nodes |-> n3, order |-> o1 ]

_add_node(g, ga, version, depth, is_direct, parent) ==
    LET created == ga \notin DOMAIN g.nodes
        n1 == IF created
              THEN Put(g.nodes, ga, DependencyNode(ga, version, depth, is_direct))
              ELSE g.nodes
        o1 == IF created THEN Append(g.order, ga) ELSE g.order
        node == n1[ga]
        link == parent # NoneGA /\ ~InSeq(parent, node.parents)
        n2 == IF link
              THEN [ n1 EXCEPT ![ga].parents = Append(@, parent) ]
              ELSE n1
        n3 == IF link /\ parent \in DOMAIN n2 /\ ~InSeq(ga, n2[parent].children)
              THEN [ n2 EXCEPT ![parent].children = Append(@, ga) ]
              ELSE n2
    IN [ nodes |-> n3, order |-> o1 ]

(***************************************************************************)
(* DependencyGraph._calculate_scores                                       *)
(***************************************************************************)
Max(S) == CHOOSE x \in S : \A y \in S : y <= x

Degree(n) == Len(n.parents) + Len(n.children)

\* the impact score left as computed, without the clamp
ClampMissing(x) == x

\* min(1.0, max(0.0, x))
Clamp(x) == RatMin(One, RatMax(Zero, x))

ImpactScore(node, centrality, max_depth) ==
    LET depth_penalty == Rat(node.depth, max_depth + 1)
        direct_boost == IF node.is_direct THEN Rat(12, 10) ELSE One
    IN Clamp(RatMul(RatMul(centrality,
                           RatSub(One, RatMul(depth_penalty, Rat(5, 10)))),
                    direct_boost))

\* _calculate_scores as it would be if max_depth were floored at 2
CalculateScoresFloorAtTwo(ns) ==
    IF DOMAIN ns = {} THEN ns
    ELSE LET max_degree == Max({ Max({ Degree(ns[k]) : k \in DOMAIN ns }), 1 })
             max_depth == Max({ Max({ ns[k].depth : k \in DOMAIN ns }), 2 })
         IN [ k \in DOMAIN ns |->
                LET centrality == Rat(Degree(ns[k]), max_degree)
                IN [ ns[k] EXCEPT !.centrality_score = centrality,
                                  !.impact_score = ImpactScore(ns[k], centrality, max_depth) ] ]

_calculate_scores(ns) ==
    IF DOMAIN ns = {} THEN ns
    ELSE LET max_degree == Max({ Max({ Degree(ns[k]) : k \in DOMAIN ns }), 1 })
             max_depth == Max({ Max({ ns[k].depth : k \in DOMAIN ns }), 1 })
         IN [ k \in DOMAIN ns |->
                LET centrality == Rat(Degree(ns[k]), max_degree)
                IN [ ns[k] EXCEPT !.centrality_score = centrality,
                                  !.impact_score = ImpactScore(ns[k], centrality, max_depth) ] ]

(***************************************************************************)
(* Input lines.  The text of debug_test.py (TEST_TREE) and variations of   *)
(* it: a second unprefixed line, keys repeated at other depths and with    *)
(* another version, a skipped level, an annotation, and lines to skip.     *)
(***************************************************************************)
Key(group, artifact) == << << group >>, << artifact >> >>

RootGA == Key("com.random-x", "part-finder-service-api")
StarterGA == Key("org.springframework.boot", "spring-boot-starter-tomcat")
TomcatGA == Key("org.apache.tomcat.embed", "tomcat-embed-core")

V_1_2_39_SNAPSHOT == << "1", ".", "2", ".", "3", "9", "-" >> \o SNAPSHOT
V_3_5_3 == << "3", ".", "5", ".", "3" >>
V_3_5_4 == << "3", ".", "5", ".", "4" >>
V_10_1_42 == << "1", "0", ".", "1", ".", "4", "2" >>
V_10_1_45 == << "1", "0", ".", "1", ".", "4", "5" >>
V_10_2_0 == << "1", "0", ".", "2", ".", "0" >>
V_2_9_0 == << "2", ".", "9", ".", "0" >>
V_3_0_0 == << "3", ".", "0", ".", "0" >>

Content(ga, version) == ga[1] \o << ":" >> \o ga[2] \o << ":" >> \o version

Indent == << VERT, SPACE, SPACE, SPACE >>
BranchMid == << TEE, HORIZ, HORIZ, SPACE >>
BranchLast == << ELBOW, HORIZ, HORIZ, SPACE >>

Lines ==
    { Content(RootGA, V_1_2_39_SNAPSHOT),
      Content(StarterGA, V_3_5_3),
      BranchMid \o Content(StarterGA, V_3_5_3),
      BranchMid \o Content(TomcatGA, V_10_1_42),
      Indent \o BranchMid \o Content(StarterGA, V_3_5_3),
      Indent \o BranchLast \o Content(TomcatGA, V_10_1_42),
      Indent \o BranchMid \o Content(TomcatGA, V_10_1_45)
          \o << SPACE, "(", "version", SPACE, "managed", ")" >>,
      Indent \o BranchMid \o Content(RootGA, V_1_2_39_SNAPSHOT),
      << >>,
      << VERT >>,
      BranchMid \o << "org.springframework.boot", ":", "spring-boot-starter-tomcat" >> }

(***************************************************************************)
(* DependencyGraph.__init__, and the entry of parse_tree_text.             *)
(***************************************************************************)
NoQuery == [ op |-> "none" ]

\* no analysis phase is under way
NoAnalysis ==
    /\ messages = << >>
    /\ iterations = 0
    /\ pending = << >>
    /\ response = NoQuery
    /\ results = EmptyDict
    /\ vuln_index = 0

Init ==
    /\ nodes = EmptyDict
    /\ order = << >>
    /\ root_project = NoneGA
    /\ depth_parents = EmptyDict
    /\ pos = 0
    /\ blank_tail = FALSE
    /\ pc = "parsing"
    /\ req = NoQuery
    /\ rec = NoQuery
    /\ NoAnalysis

(***************************************************************************)
(* One iteration of the loop of parse_tree_text over the lines of          *)
(* tree_text.strip().split('\n').  Because of the strip() the first line   *)
(* is not blank and does not start with whitespace, and the last line is   *)
(* not blank and does not end with whitespace (no line of Lines does); the *)
(* empty text gives the single line '', which the loop skips, modelled as  *)
(* zero iterations.                                                        *)
(***************************************************************************)
IsBlank(line) == Strip(line) = << >>

\* depth_parents[depth] = ga, then every entry of a depth > depth deleted
SetChain(chain, depth, ga) ==
    [ d \in { x \in (DOMAIN chain) \cup { depth } : x <= depth } |->
        IF d = depth THEN ga ELSE chain[d] ]

\* depth_parents.get(d)
ChainGet(chain, d) == IF d \in DOMAIN chain THEN chain[d] ELSE NoneGA

LoopBody(line) ==
    /\ pc = "parsing"
    /\ pos = 0 => (~IsBlank(line) /\ Head(line) \notin Whitespace)
    /\ pos' = pos + 1
    /\ blank_tail' = IsBlank(line)
    /\ UNCHANGED << pc, req, rec >>
    /\ UNCHANGED analysis_vars
    /\ LET depth == _calculate_depth(line)
           e == _extract_ga_version(line)
           ga == e[1]
           version == e[2]
           g == [ nodes |-> nodes, order |-> order ]
       IN IF IsBlank(line) \/ ga = NoneGA
          THEN UNCHANGED << nodes, order, root_project, depth_parents >>
          ELSE IF depth = 0
          THEN LET h == _add_node(g, ga, version, 0, TRUE, NoneGA)
               IN /\ root_project' = ga
                  /\ depth_parents' = Put(depth_parents, 0, ga)
                  /\ nodes' = h.nodes
                  /\ order' = h.order
          ELSE LET parent_ga == ChainGet(depth_parents, depth - 1)
                   h == _add_node(g, ga, version, depth, depth = 1, parent_ga)
               IN /\ nodes' = h.nodes
                  /\ order' = h.order
                  /\ depth_parents' = SetChain(depth_parents, depth, ga)
                  /\ UNCHANGED root_project

\* an iteration of the loop, in a text of at most MaxLines lines
ParseLine(line) ==
    /\ pos < MaxLines
    /\ LoopBody(line)

\* The loop is over: _calculate_scores, and return (the locals are gone).
FinishParse ==
    /\ pc = "parsing"
    /\ ~blank_tail
    /\ nodes' = _calculate_scores(nodes)
    /\ pc' = "parsed"
    /\ depth_parents' = EmptyDict
    /\ pos' = 0
    /\ UNCHANGED << order, root_project, blank_tail, req, rec >>
    /\ UNCHANGED analysis_vars

(***************************************************************************)
(* DependencyGraph.get_dependency_info (DependencyNode.to_dict plus the    *)
(* risk label); found = FALSE is the result None.                          *)
(***************************************************************************)
\* round(x, 3) of a score: to the nearest thousandth, a tie to the even one
Round3(x) ==
    LET q == (1000 * x[1]) \div x[2]
        r == (1000 * x[1]) % x[2]
        up == 2 * r > x[2] \/ (2 * r = x[2] /\ q % 2 = 1)
    IN Rat(IF up THEN q + 1 ELSE q, 1000)

\* the label as it would be with >= in place of > at both thresholds
RiskAssessmentInclusive(impact_score) ==
    IF ~RatLess(impact_score, Rat(7, 10)) THEN "HIGH"
    ELSE IF ~RatLess(impact_score, Rat(4, 10)) THEN "MEDIUM"
    ELSE "LOW"

RiskAssessment(impact_score) ==
    IF RatLess(Rat(7, 10), impact_score) THEN "HIGH"
    ELSE IF RatLess(Rat(4, 10), impact_score) THEN "MEDIUM"
    ELSE "LOW"

\* get_dependency_info as it would be without the membership test: the
\* subscript self.nodes[ga] raises KeyError for a key that is not there
GetDependencyInfoNoGuard(ns, ga) ==
    IF ga \notin DOMAIN ns
    THEN [ found |-> FALSE, outcome |-> "raise", exception |-> "KeyError" ]
    ELSE LET node == ns[ga]
         IN [ found |-> TRUE,
              ga |-> node.ga,
              version |-> node.version,
              depth |-> node.depth,
              is_direct |-> node.is_direct,
              parents |-> node.parents,
              children |-> node.children,
              centrality_score |-> Round3(node.centrality_score),
              impact_score |-> Round3(node.impact_score),
              risk_assessment |-> RiskAssessment(node.impact_score) ]

get_dependency_info(ns, ga) ==
    IF ga \notin DOMAIN ns THEN [ found |-> FALSE ]
    ELSE LET node == ns[ga]
         IN [ found |-> TRUE,
              ga |-> node.ga,
              version |-> node.version,
              depth |-> node.depth,
              is_direct |-> node.is_direct,
              parents |-> node.parents,
              children |-> node.children,
              centrality_score |-> Round3(node.centrality_score),
              impact_score |-> Round3(node.impact_score),
              risk_assessment |-> RiskAssessment(node.impact_score) ]

(***************************************************************************)
(* DependencyGraph.get_llm_summary.  ord is the insertion order of the     *)
(* dict, which is the order of self.nodes.items().                         *)
(***************************************************************************)
\* DependencyNode.to_dict
to_dict(node) ==
    [ ga |-> node.ga,
      version |-> node.version,
      depth |-> node.depth,
      is_direct |-> node.is_direct,
      parents |-> node.parents,
      children |-> node.children,
      centrality_score |-> Round3(node.centrality_score),
      impact_score |-> Round3(node.impact_score) ]

\* the number of entries of the high-risk list that the summary keeps
HighRiskLimit == 10

\* [ ... for ga, n in self.nodes.items() if n.impact_score > 0.5 ]
RECURSIVE HighRisk(_, _)
HighRisk(ns, ord) ==
    IF ord = << >> THEN << >>
    ELSE LET n == ns[Head(ord)]
         IN (IF RatLess(Rat(5, 10), n.impact_score)
             THEN << [ ga |-> Head(ord), impact_score |-> n.impact_score,
                       version |-> n.version ] >>
             ELSE << >>) \o HighRisk(ns, Tail(ord))

\* x placed into the list s, which is sorted by descending impact_score,
\* behind every entry whose impact_score is not smaller
InsertByImpact(x, s) ==
    LET k == Cardinality({ i \in 1..Len(s) : ~RatLess(s[i].impact_score, x.impact_score) })
    IN SubSeq(s, 1, k) \o << x >> \o SubSeq(s, k + 1, Len(s))

\* list.sort(key=impact_score, reverse=True): stable, entries of equal
\* score keep their order
\* the sort left out: the list in the order of the dict
SortByImpactMissing(s) == s

RECURSIVE SortByImpact(_)
SortByImpact(s) ==
    IF s = << >> THEN << >>
    ELSE InsertByImpact(s[Len(s)], SortByImpact(SubSeq(s, 1, Len(s) - 1)))

\* s[:n]
Take(s, n) == SubSeq(s, 1, IF Len(s) < n THEN Len(s) ELSE n)

get_llm_summary(ns, ord, root) ==
    IF DOMAIN ns = {} THEN [ error |-> "No dependencies parsed" ]
    ELSE LET direct == { k \in DOMAIN ns : ns[k].is_direct }
             transitive == { k \in DOMAIN ns : ~ns[k].is_direct }
         IN [ project |-> root,
              total_dependencies |-> Cardinality(DOMAIN ns),
              direct_count |-> Cardinality(direct),
              transitive_count |-> Cardinality(transitive),
              max_depth |-> Max({ ns[k].depth : k \in DOMAIN ns }),
              high_risk_dependencies |->
                  Take(SortByImpact(HighRisk(ns, ord)), HighRiskLimit),
              direct_dependencies |-> [ k \in direct |-> to_dict(ns[k]) ],
              transitive_dependencies |-> [ k \in transitive |-> to_dict(ns[k]) ],
              all_dependencies |-> [ k \in DOMAIN ns |-> to_dict(ns[k]) ] ]

(***************************************************************************)
(* upgrade_strategy.py: SPRING_BOOT_BOM_PROPERTIES                         *)
(***************************************************************************)
SPRING_BOOT_BOM_PROPERTIES ==
    { << Key("org.apache.tomcat.embed", "tomcat-embed-core"), "tomcat.version" >>,
      << Key("org.apache.tomcat.embed", "tomcat-embed-el"), "tomcat.version" >>,
      << Key("org.apache.tomcat.embed", "tomcat-embed-websocket"), "tomcat.version" >>,
      << Key("com.fasterxml.jackson.core", "jackson-databind"), "jackson-bom.version" >>,
      << Key("com.fasterxml.jackson.core", "jackson-core"), "jackson-bom.version" >>,
      << Key("com.fasterxml.jackson.core", "jackson-annotations"), "jackson-bom.version" >>,
      << Key("org.apache.logging.log4j", "log4j-core"), "log4j2.version" >>,
      << Key("org.apache.logging.log4j", "log4j-api"), "log4j2.version" >>,
      << Key("io.netty", "netty-handler"), "netty.version" >>,
      << Key("io.netty", "netty-buffer"), "netty.version" >>,
      << Key("io.netty", "netty-transport"), "netty.version" >>,
      << Key("org.hibernate.orm", "hibernate-core"), "hibernate.version" >>,
      << Key("org.springframework", "spring-core"), "spring-framework.version" >>,
      << Key("org.springframework", "spring-context"), "spring-framework.version" >>,
      << Key("org.springframework", "spring-web"), "spring-framework.version" >>,
      << Key("ch.qos.logback", "logback-classic"), "logback.version" >>,
      << Key("ch.qos.logback", "logback-core"), "logback.version" >> }

\* ga in SPRING_BOOT_BOM_PROPERTIES
InBomProperties(ga) == \E e \in SPRING_BOOT_BOM_PROPERTIES : e[1] = ga

\* SPRING_BOOT_BOM_PROPERTIES[ga]
BomProperty(ga) == (CHOOSE e \in SPRING_BOOT_BOM_PROPERTIES : e[1] = ga)[2]

(***************************************************************************)
(* UpgradeRecommendation, and the ways a call ends.  The steps, warnings   *)
(* and testing_focus are fixed text; of them the model keeps only the      *)
(* exceptions their construction can raise.                                *)
(***************************************************************************)
Raise(exception) == [ outcome |-> "raise", exception |-> exception ]

UpgradeRecommendation(vulnerable_ga, vulnerable_version, target_version, strategy, upgrade_target_ga, upgrade_target_version, risk_level, parent_to_upgrade, parent_current_version, parent_target_version) ==
    [ outcome |-> "return",
      vulnerable_ga |-> vulnerable_ga,
      vulnerable_version |-> vulnerable_version,
      target_version |-> target_version,
      strategy |-> strategy,
      upgrade_target_ga |-> upgrade_target_ga,
      upgrade_target_version |-> upgrade_target_version,
      risk_level |-> risk_level,
      parent_to_upgrade |-> parent_to_upgrade,
      parent_current_version |-> parent_current_version,
      parent_target_version |-> parent_target_version ]

\* a, b = ga.split(":") succeeds
UnpacksToTwo(ga) == Len(ga) = 2

Unknown == << "unknown" >>

(***************************************************************************)
(* UpgradeStrategyAnalyzer                                                 *)
(***************************************************************************)
DirectRisk(jump_type) ==
    IF jump_type = "patch" THEN "LOW"
    ELSE IF jump_type = "minor" THEN "MEDIUM"
    ELSE "HIGH"

_create_direct_upgrade(ga, from_version, to_version) ==
    LET jump_type == version_jump_type(from_version, to_version)
        risk == DirectRisk(jump_type)
    IN IF ~UnpacksToTwo(ga) THEN Raise("ValueError")
       ELSE UpgradeRecommendation(ga, from_version, to_version, "DIRECT_UPGRADE",
                                  ga, to_version, risk,
                                  NoneGA, NoVersion, NoVersion)

_create_parent_upgrade(vulnerable_ga, vulnerable_version, target_version, parent_ga, parent_current, parent_target) ==
    IF ~UnpacksToTwo(parent_ga) THEN Raise("ValueError")
    ELSE UpgradeRecommendation(vulnerable_ga, vulnerable_version, target_version,
                               "PARENT_UPGRADE", parent_ga, parent_target, "LOW",
                               parent_ga, parent_current, parent_target)

\* _create_bom_override as it would be if its risk looked at the major only
CreateBomOverrideByMajor(vulnerable_ga, vulnerable_version, target_version, bom_property, parent_ga) ==
    IF Len(vulnerable_ga) < 2 THEN Raise("IndexError")
    ELSE UpgradeRecommendation(vulnerable_ga, vulnerable_version, target_version,
                               "BOM_OVERRIDE", vulnerable_ga, target_version,
                               IF is_same_major(vulnerable_version, target_version)
                               THEN "LOW" ELSE "MEDIUM",
                               NoneGA, NoVersion, NoVersion)

_create_bom_override(vulnerable_ga, vulnerable_version, target_version, bom_property, parent_ga) ==
    IF Len(vulnerable_ga) < 2 THEN Raise("IndexError")
    ELSE UpgradeRecommendation(vulnerable_ga, vulnerable_version, target_version,
                               "BOM_OVERRIDE", vulnerable_ga, target_version,
                               IF is_same_major_minor(vulnerable_version, target_version)
                               THEN "LOW" ELSE "MEDIUM",
                               NoneGA, NoVersion, NoVersion)

_create_force_override(vulnerable_ga, vulnerable_version, target_version, parent_ga, risk) ==
    IF ~UnpacksToTwo(vulnerable_ga) THEN Raise("ValueError")
    ELSE UpgradeRecommendation(vulnerable_ga, vulnerable_version, target_version,
                               "FORCE_OVERRIDE", vulnerable_ga, target_version, risk,
                               NoneGA, NoVersion, NoVersion)

_create_cannot_upgrade(vulnerable_ga, vulnerable_version, target_version, parent_ga) ==
    UpgradeRecommendation(vulnerable_ga, vulnerable_version, target_version,
                          "CANNOT_UPGRADE", vulnerable_ga, target_version, "CRITICAL",
                          NoneGA, NoVersion, NoVersion)

\* Strategy 1 applies: the parent is a key of the map and its list is not empty
ParentCanBeUpgraded(immediate_parent, available_parent_versions) ==
    /\ immediate_parent \in DOMAIN available_parent_versions
    /\ available_parent_versions[immediate_parent] # << >>

\* the parent recorded last, parents[-1], instead of the first
LastParent(parents) == parents[Len(parents)]

\* parents[0]
ImmediateParent(parents) == parents[1]

\* _analyze_transitive_upgrade as it would be if the override table were
\* consulted before the empty parents list
AnalyzeTransitiveTableFirst(ns, vulnerable_ga, vulnerable_version, target_version, dep_info, available_parent_versions) ==
    LET parents == dep_info.parents
        immediate_parent == IF parents = << >> THEN NoneGA ELSE ImmediateParent(parents)
        parent_info == get_dependency_info(ns, immediate_parent)
    IN IF parents # << >> /\ ParentCanBeUpgraded(immediate_parent, available_parent_versions)
       THEN _create_parent_upgrade(vulnerable_ga, vulnerable_version, target_version,
                                   immediate_parent,
                                   IF parent_info.found THEN parent_info.version
                                   ELSE Unknown,
                                   available_parent_versions[immediate_parent][1])
       ELSE IF InBomProperties(vulnerable_ga)
       THEN _create_bom_override(vulnerable_ga, vulnerable_version, target_version,
                                 BomProperty(vulnerable_ga), immediate_parent)
       ELSE IF parents = << >>
       THEN _create_direct_upgrade(vulnerable_ga, vulnerable_version, target_version)
       ELSE IF is_same_major_minor(vulnerable_version, target_version)
       THEN _create_force_override(vulnerable_ga, vulnerable_version, target_version,
                                   immediate_parent, "MEDIUM")
       ELSE IF is_same_major(vulnerable_version, target_version)
       THEN _create_force_override(vulnerable_ga, vulnerable_version, target_version,
                                   immediate_parent, "HIGH")
       ELSE _create_cannot_upgrade(vulnerable_ga, vulnerable_version, target_version,
                                   immediate_parent)

_analyze_transitive_upgrade(ns, vulnerable_ga, vulnerable_version, target_version, dep_info, available_parent_versions) ==
    LET parents == dep_info.parents
        immediate_parent == ImmediateParent(parents)
        parent_info == get_dependency_info(ns, immediate_parent)
    IN IF parents = << >>
       THEN _create_direct_upgrade(vulnerable_ga, vulnerable_version, target_version)
       ELSE IF ParentCanBeUpgraded(immediate_parent, available_parent_versions)
       THEN _create_parent_upgrade(vulnerable_ga, vulnerable_version, target_version,
                                   immediate_parent,
                                   IF parent_info.found THEN parent_info.version
                                   ELSE Unknown,
                                   available_parent_versions[immediate_parent][1])
       ELSE IF InBomProperties(vulnerable_ga)
       THEN _create_bom_override(vulnerable_ga, vulnerable_version, target_version,
                                 BomProperty(vulnerable_ga), immediate_parent)
       ELSE IF is_same_major_minor(vulnerable_version, target_version)
       THEN _create_force_override(vulnerable_ga, vulnerable_version, target_version,
                                   immediate_parent, "MEDIUM")
       ELSE IF is_same_major(vulnerable_version, target_version)
       THEN _create_force_override(vulnerable_ga, vulnerable_version, target_version,
                                   immediate_parent, "HIGH")
       ELSE _create_cannot_upgrade(vulnerable_ga, vulnerable_version, target_version,
                                   immediate_parent)

\* get_upgrade_strategy as it would be without the is_direct test
GetUpgradeStrategyNoDirectTest(ns, vulnerable_ga, vulnerable_version, target_version, available_parent_versions) ==
    LET dep_info == get_dependency_info(ns, vulnerable_ga)
    IN IF ~dep_info.found
       THEN _create_direct_upgrade(vulnerable_ga, vulnerable_version, target_version)
       ELSE _analyze_transitive_upgrade(ns, vulnerable_ga, vulnerable_version,
                                        target_version, dep_info,
                                        available_parent_versions)

get_upgrade_strategy(ns, vulnerable_ga, vulnerable_version, target_version, available_parent_versions) ==
    LET dep_info == get_dependency_info(ns, vulnerable_ga)
    IN IF ~dep_info.found
       THEN _create_direct_upgrade(vulnerable_ga, vulnerable_version, target_version)
       ELSE IF dep_info.is_direct
       THEN _create_direct_upgrade(vulnerable_ga, vulnerable_version, target_version)
       ELSE _analyze_transitive_upgrade(ns, vulnerable_ga, vulnerable_version,
                                        target_version, dep_info,
                                        available_parent_versions)

(***************************************************************************)
(* Calls of analyze_upgrade on the parsed graph.  The keys asked about are *)
(* those of the text, one that is in no text, and two that are not of the  *)
(* shape group:artifact; available_parent_versions = None is the empty     *)
(* map (available_parent_versions or {}).                                  *)
(***************************************************************************)
JacksonGA == Key("com.fasterxml.jackson.core", "jackson-databind")

QueryKeys ==
    { RootGA, StarterGA, TomcatGA, JacksonGA,
      << << "tomcat-embed-core" >> >>,
      << << "org.apache.tomcat.embed" >>, << "tomcat-embed-core" >>, << "jar" >> >> }

VersionPairs ==
    { << V_10_1_42, V_10_1_45 >>,
      << V_10_1_42, V_10_2_0 >>,
      << V_2_9_0, V_3_0_0 >> }

ParentVersionMaps ==
    { EmptyDict,
      Put(EmptyDict, StarterGA, << V_3_5_4, V_3_5_3 >>),
      Put(Put(EmptyDict, StarterGA, << >>), RootGA, << V_3_0_0 >>) }

GetUpgradeStrategy(vulnerable_ga, vulnerable_version, target_version, available_parent_versions) ==
    /\ pc = "parsed"
    /\ req' = [ op |-> "get_upgrade_strategy",
                vulnerable_ga |-> vulnerable_ga,
                vulnerable_version |-> vulnerable_version,
                target_version |-> target_version,
                available_parent_versions |-> available_parent_versions ]
    /\ rec' = get_upgrade_strategy(nodes, vulnerable_ga, vulnerable_version,
                                   target_version, available_parent_versions)
    /\ pc' = "answered"
    /\ UNCHANGED << nodes, order, root_project, depth_parents, pos, blank_tail >>
    /\ UNCHANGED analysis_vars

\* get_dependency_info as it would be with self.nodes.setdefault(ga, ...)
\* in place of the membership test: the lookup stores a node for a new key
GetDependencyInfoSetDefault(ga) ==
    /\ pc = "parsed"
    /\ req' = [ op |-> "get_dependency_info", ga |-> ga ]
    /\ nodes' = IF ga \in DOMAIN nodes THEN nodes
                ELSE Put(nodes, ga, DependencyNode(ga, Unknown, 0, FALSE))
    /\ order' = IF ga \in DOMAIN nodes THEN order ELSE Append(order, ga)
    /\ rec' = get_dependency_info(nodes', ga)
    /\ pc' = "answered"
    /\ UNCHANGED << root_project, depth_parents, pos, blank_tail >>
    /\ UNCHANGED analysis_vars

\* graph.get_dependency_info(ga) on the parsed graph
GetDependencyInfo(ga) ==
    /\ pc = "parsed"
    /\ req' = [ op |-> "get_dependency_info", ga |-> ga ]
    /\ rec' = get_dependency_info(nodes, ga)
    /\ pc' = "answered"
    /\ UNCHANGED << nodes, order, root_project, depth_parents, pos, blank_tail >>
    /\ UNCHANGED analysis_vars

\* graph.get_llm_summary() on the parsed graph
GetLlmSummary ==
    /\ pc = "parsed"
    /\ req' = [ op |-> "get_llm_summary" ]
    /\ rec' = get_llm_summary(nodes, order, root_project)
    /\ pc' = "answered"
    /\ UNCHANGED << nodes, order, root_project, depth_parents, pos, blank_tail >>
    /\ UNCHANGED analysis_vars

\* The caller is done with the result and is ready for its next call.
NextCall ==
    /\ pc = "answered"
    /\ pc' = "parsed"
    /\ req' = NoQuery
    /\ rec' = NoQuery
    /\ UNCHANGED << nodes, order, root_project, depth_parents, pos, blank_tail >>
    /\ UNCHANGED analysis_vars

Next ==
    \/ \E line \in Lines : ParseLine(line)
    \/ FinishParse
    \/ \E ga \in QueryKeys, v \in VersionPairs, m \in ParentVersionMaps :
           GetUpgradeStrategy(ga, v[1], v[2], m)
    \/ \E ga \in QueryKeys : GetDependencyInfo(ga)
    \/ GetLlmSummary
    \/ NextCall

Spec == Init /\ [][Next]_vars

(***************************************************************************)
(* The version utilities on their own: version_jump_type applied to a pair *)
(* of version strings.  The strings are those of debug_test.py and of the  *)
(* docstrings, with and without a qualifier, with fewer than three numeric *)
(* components, with none, and the empty string.                            *)
(***************************************************************************)
V_2_19_1_SNAPSHOT == << "2", ".", "1", "9", ".", "1", "-" >> \o SNAPSHOT
V_2_19_1 == << "2", ".", "1", "9", ".", "1" >>
V_2_15_0 == << "2", ".", "1", "5", ".", "0" >>
V_2_1_GA2 == << "2", ".", "1", "." >> \o GA \o << "2" >>

Versions ==
    { V_10_1_42, V_10_1_45, V_10_2_0, V_2_9_0, V_3_0_0, V_3_5_3,
      V_2_19_1, V_2_19_1_SNAPSHOT, V_2_15_0,
      V_10_1_42 \o << "." >> \o RELEASE,
      V_2_9_0 \o << "." >> \o Final,
      V_3_0_0 \o << "-" >> \o GA,
      << "1", "0", ".", "1" >>,
      << "1", "0" >>,
      << "l", "a", "t", "e", "s", "t" >>,
      << >>,
      V_2_1_GA2,
      << "1" >> \o GA \o << "2" >> }

InitVersions ==
    /\ nodes = EmptyDict
    /\ order = << >>
    /\ root_project = NoneGA
    /\ depth_parents = EmptyDict
    /\ pos = 0
    /\ blank_tail = FALSE
    /\ pc = "called"
    /\ req \in { [ op |-> o, from_v |-> a, to_v |-> b ] :
                     o \in { "version_jump_type", "is_same_major_minor", "is_same_major" },
                     a \in Versions, b \in Versions }
                 \cup { [ op |-> "parse_version", version |-> v ] : v \in Versions }
    /\ rec = NoQuery
    /\ NoAnalysis

VersionJumpType ==
    /\ pc = "called"
    /\ req.op = "version_jump_type"
    /\ rec' = version_jump_type(req.from_v, req.to_v)
    /\ pc' = "answered"
    /\ UNCHANGED << nodes, order, root_project, depth_parents, pos, blank_tail, req >>
    /\ UNCHANGED analysis_vars

ParseVersion ==
    /\ pc = "called"
    /\ req.op = "parse_version"
    /\ rec' = parse_version(req.version)
    /\ pc' = "answered"
    /\ UNCHANGED << graph_vars, req >>
    /\ UNCHANGED analysis_vars

IsSameMajorMinor ==
    /\ pc = "called"
    /\ req.op = "is_same_major_minor"
    /\ rec' = is_same_major_minor(req.from_v, req.to_v)
    /\ pc' = "answered"
    /\ UNCHANGED << graph_vars, req >>
    /\ UNCHANGED analysis_vars

IsSameMajor ==
    /\ pc = "called"
    /\ req.op = "is_same_major"
    /\ rec' = is_same_major(req.from_v, req.to_v)
    /\ pc' = "answered"
    /\ UNCHANGED << graph_vars, req >>
    /\ UNCHANGED analysis_vars

NextVersions ==
    \/ VersionJumpType
    \/ ParseVersion
    \/ IsSameMajorMinor
    \/ IsSameMajor

SpecVersions == InitVersions /\ [][NextVersions]_vars

(***************************************************************************)
(* parse_dependency_tree called twice on the same text.  Each call makes a *)
(* DependencyGraph of its own and runs parse_tree_text on it; the caller   *)
(* holds the graph the first call returned (rec) while the second call     *)
(* runs.  The model variables are the frame of the call under way: after a *)
(* return they keep what the frame held, until the next call's prologue    *)
(* (DependencyGraph.__init__, and depth_parents = {} in parse_tree_text)   *)
(* assigns them afresh.                                                    *)
(***************************************************************************)
TextLines ==
    { Content(RootGA, V_1_2_39_SNAPSHOT),
      BranchMid \o Content(StarterGA, V_3_5_3),
      BranchMid \o Content(TomcatGA, V_10_1_42),
      Indent \o BranchLast \o Content(TomcatGA, V_10_1_42),
      Indent \o BranchMid \o Content(TomcatGA, V_10_1_45)
          \o << SPACE, "(", "version", SPACE, "managed", ")" >>,
      << >> }

\* tree_text.strip().split('\n') for the texts of at most MaxLines lines:
\* the first line is not blank and the last line is not blank
Texts ==
    { t \in UNION { [ 1..n -> TextLines ] : n \in 0..MaxLines } :
          t # << >> => (~IsBlank(t[1]) /\ ~IsBlank(t[Len(t)])) }

InitTwice ==
    /\ nodes = EmptyDict
    /\ order = << >>
    /\ root_project = NoneGA
    /\ depth_parents = EmptyDict
    /\ pos = 0
    /\ blank_tail = FALSE
    /\ pc = "parsing"
    /\ req \in { [ op |-> "parse_dependency_tree", tree_text |-> t ] : t \in Texts }
    /\ rec = NoQuery
    /\ NoAnalysis

\* one iteration of the loop, on the next line of the text
ParseTextLine ==
    /\ pc = "parsing"
    /\ pos < Len(req.tree_text)
    /\ LoopBody(req.tree_text[pos + 1])

\* the loop is over: _calculate_scores, return self
ReturnGraph ==
    /\ pc = "parsing"
    /\ pos = Len(req.tree_text)
    /\ nodes' = _calculate_scores(nodes)
    /\ pc' = "parsed"
    /\ UNCHANGED << order, root_project, depth_parents, pos, blank_tail, req, rec >>
    /\ UNCHANGED analysis_vars

\* the second call as it would be if depth_parents outlived the call (a
\* mutable default argument, or an attribute of the class)
ParseAgainKeepsChain ==
    /\ pc = "parsed"
    /\ rec = NoQuery
    /\ rec' = [ op |-> "graph", nodes |-> nodes, order |-> order,
                root_project |-> root_project ]
    /\ nodes' = EmptyDict
    /\ order' = << >>
    /\ root_project' = NoneGA
    /\ pos' = 0
    /\ blank_tail' = FALSE
    /\ pc' = "parsing"
    /\ UNCHANGED << depth_parents, req >>
    /\ UNCHANGED analysis_vars

\* the caller keeps the first graph and calls parse_dependency_tree on the
\* same text again: graph = DependencyGraph(), and the prologue of
\* parse_tree_text
ParseAgain ==
    /\ pc = "parsed"
    /\ rec = NoQuery
    /\ rec' = [ op |-> "graph", nodes |-> nodes, order |-> order,
                root_project |-> root_project ]
    /\ nodes' = EmptyDict
    /\ order' = << >>
    /\ root_project' = NoneGA
    /\ depth_parents' = EmptyDict
    /\ pos' = 0
    /\ blank_tail' = FALSE
    /\ pc' = "parsing"
    /\ UNCHANGED req
    /\ UNCHANGED analysis_vars

NextTwice ==
    \/ ParseTextLine
    \/ ReturnGraph
    \/ ParseAgain

SpecTwice == InitTwice /\ [][NextTwice]_vars

(***************************************************************************)
(* The queries on the graphs of whole texts: a chain (each line one level  *)
(* deeper than the line before) of up to MaxChain lines, the text of       *)
(* debug_test.py, and a text with two leaves under one direct dependency.  *)
(* The artifact of the chain's key at depth d is the letter a repeated     *)
(* d + 1 times.                                                            *)
(***************************************************************************)
MaxChain == 14

Log4jGA == Key("org.apache.logging.log4j", "log4j-core")

V_2_24_3 == << "2", ".", "2", "4", ".", "3" >>

ChainKey(d) == << << "g" >>, [ i \in 1..(d + 1) |-> "a" ] >>

\* the tree prefix of a line of depth d >= 1
RECURSIVE Indents(_)
Indents(n) == IF n = 0 THEN << >> ELSE Indent \o Indents(n - 1)

ChainLine(d) ==
    IF d = 0 THEN Content(ChainKey(0), V_3_5_3)
    ELSE Indents(d - 1) \o BranchLast \o Content(ChainKey(d), V_3_5_3)

ChainText(n) == [ i \in 1..n |-> ChainLine(i - 1) ]

TEST_TREE ==
    << Content(RootGA, V_1_2_39_SNAPSHOT),
       BranchMid \o Content(StarterGA, V_3_5_3),
       Indent \o BranchLast \o Content(TomcatGA, V_10_1_42),
       BranchMid \o Content(JacksonGA, V_2_19_1),
       BranchLast \o Content(Log4jGA, V_2_24_3) >>

TwoLeaves ==
    << Content(RootGA, V_1_2_39_SNAPSHOT),
       BranchMid \o Content(StarterGA, V_3_5_3),
       Indent \o BranchMid \o Content(TomcatGA, V_10_1_42),
       Indent \o BranchLast \o Content(JacksonGA, V_2_19_1) >>

SummaryTexts == { ChainText(n) : n \in 1..MaxChain } \cup { TEST_TREE, TwoLeaves }

InitSummary ==
    /\ nodes = EmptyDict
    /\ order = << >>
    /\ root_project = NoneGA
    /\ depth_parents = EmptyDict
    /\ pos = 0
    /\ blank_tail = FALSE
    /\ pc = "parsing"
    /\ req \in { [ op |-> "parse_dependency_tree", tree_text |-> t ] : t \in SummaryTexts }
    /\ rec = NoQuery
    /\ NoAnalysis

NextSummary ==
    \/ ParseTextLine
    \/ ReturnGraph
    \/ \E ga \in DOMAIN nodes \cup { JacksonGA } : GetDependencyInfo(ga)
    \/ GetLlmSummary
    \/ NextCall

SpecSummary == InitSummary /\ [][NextSummary]_vars

(***************************************************************************)
(* version_analyzer.py: VersionAnalyzer, and the analysis phase of main    *)
(* (main.py, step 3).  The model service and the tools are the             *)
(* environment: a model request raises or returns a message, which has     *)
(* either tool calls or a final content.  The text of a content is kept    *)
(* as what json.loads makes of the part _parse_response hands it.          *)
(***************************************************************************)
max_iterations == 10

V_10_1_43 == << "1", "0", ".", "1", ".", "4", "3" >>
V_10_1_44 == << "1", "0", ".", "1", ".", "4", "4" >>

UNKNOWN == << "UNKNOWN" >>

JFrogVulnerability(vulnerable_ga, vulnerable_version, fixed_versions) ==
    [ vulnerable_ga |-> vulnerable_ga,
      vulnerable_version |-> vulnerable_version,
      fixed_versions |-> fixed_versions ]

VersionRecommendation(recommended_version, reasoning, risk_level, breaking_changes, testing_recommendations, fallback_versions) ==
    [ recommended_version |-> recommended_version,
      reasoning |-> reasoning,
      risk_level |-> risk_level,
      breaking_changes |-> breaking_changes,
      testing_recommendations |-> testing_recommendations,
      fallback_versions |-> fallback_versions ]

\* a call returns value
Return(value) == [ outcome |-> "return", value |-> value ]

\* s[1:3]
Slice1To3(s) == SubSeq(s, 2, IF Len(s) < 3 THEN Len(s) ELSE 3)

\* fixed_versions[1:3] if len(fixed_versions) > 1 else []
FallbackVersions(fixed_versions) ==
    IF Len(fixed_versions) > 1 THEN Slice1To3(fixed_versions) ELSE << >>

\* dict.get(key, default)
Get(d, key, default) == IF key \in DOMAIN d THEN d[key] ELSE default

\* message.content is None
NoContent == [ kind |-> "None" ]

\* a content string: fenced tells whether the JSON text is wrapped in ```
\* marks (with text around them), json is what json.loads makes of the
\* part between the marks, or of the whole content when there is no mark
ContentStr(fenced, json) == [ kind |-> "str", fenced |-> fenced, json |-> json ]

\* json.loads raises JSONDecodeError
NotJson == [ parses |-> FALSE ]

\* json.loads returns a value that is not a dict (a list, a string, a number)
JsonList == [ parses |-> TRUE, object |-> FALSE ]

\* json.loads returns the dict data
JsonObject(data) == [ parses |-> TRUE, object |-> TRUE, data |-> data ]

_parse_response(content, vulnerability) ==
    LET fixed_versions == vulnerability.fixed_versions
        \* the except clause (JSONDecodeError, IndexError, KeyError)
        handler ==
            IF fixed_versions = << >> THEN Raise("IndexError")
            ELSE Return(VersionRecommendation(
                     fixed_versions[1], "LLM Response (unparsed)", "MEDIUM",
                     << >>, << "Full regression test recommended" >>,
                     FallbackVersions(fixed_versions)))
    IN IF content = NoContent THEN Raise("TypeError")
       ELSE IF ~content.json.parses THEN handler
       ELSE IF ~content.json.object THEN Raise("AttributeError")
       ELSE IF fixed_versions = << >> THEN handler
       ELSE LET data == content.json.data
            IN Return(VersionRecommendation(
                   Get(data, "recommended_version", fixed_versions[1]),
                   Get(data, "reasoning", "No reasoning provided"),
                   Get(data, "risk_level", "MEDIUM"),
                   Get(data, "breaking_changes", << >>),
                   Get(data, "testing_recommendations", << >>),
                   Get(data, "fallback_versions", Slice1To3(fixed_versions))))

_default_recommendation(vulnerability) ==
    LET fixed_versions == vulnerability.fixed_versions
    IN IF fixed_versions = << >> THEN Raise("IndexError")
       ELSE Return(VersionRecommendation(
                fixed_versions[1],
                "Analysis could not complete. Defaulting to highest fixed version.",
                "HIGH",
                << "Unknown - manual review required" >>,
                << "Full regression test required",
                   "Manual changelog review recommended" >>,
                FallbackVersions(fixed_versions)))

\* a tool call: arguments is function.arguments, a JSON object with some
\* keys (Arguments) or a string json.loads rejects (NotJson)
ToolCall(id, name, arguments) == [ id |-> id, name |-> name, arguments |-> arguments ]

\* an arguments string that json.loads turns into a dict with these keys
Arguments(keys) == [ parses |-> TRUE, keys |-> keys ]

_execute_tool(tool_call) ==
    LET name == tool_call.name
        args == tool_call.arguments
    IN IF ~args.parses THEN Raise("JSONDecodeError")
       ELSE IF name = "get_dependency_info"
       THEN IF "ga" \in args.keys THEN Return("result") ELSE Raise("KeyError")
       ELSE IF name \in { "get_changelog", "check_version_compatibility" }
       THEN IF { "ga", "version" } \subseteq args.keys THEN Return("result")
            ELSE Raise("KeyError")
       ELSE Return("error: Unknown tool")

\* main.py, the except clause of step 3
MainFallback(vuln) ==
    VersionRecommendation(
        IF vuln.fixed_versions # << >> THEN vuln.fixed_versions[1] ELSE UNKNOWN,
        "Analysis failed", "HIGH",
        << "Manual review required" >>,
        << "Full regression test required" >>,
        FallbackVersions(vuln.fixed_versions))

(***************************************************************************)
(* Inputs of the analysis phase: the first sample vulnerability of main.py *)
(* with its list of fix versions as written there (highest first), as in   *)
(* the docstring of load_jfrog_vulnerabilities (lowest first), with one    *)
(* entry, and empty (the default of vuln.get("fixed_versions", [])).       *)
(***************************************************************************)
FixedVersionLists ==
    { << V_10_1_45, V_10_1_44, V_10_1_43 >>,
      << V_10_1_43, V_10_1_44, V_10_1_45 >>,
      << V_10_1_45 >>,
      << >> }

VulnerabilityLists ==
    { << JFrogVulnerability(TomcatGA, V_10_1_42, fv) >> : fv \in FixedVersionLists }

\* the answer of a model that follows the system prompt
FullAnswer ==
    [ recommended_version |-> V_10_1_44,
      reasoning |-> "reasoning of the model",
      risk_level |-> "LOW",
      breaking_changes |-> << >>,
      testing_recommendations |-> << "Test servlet endpoints" >>,
      fallback_versions |-> << V_10_1_43 >> ]

Contents ==
    { NoContent,
      ContentStr(FALSE, JsonObject(FullAnswer)),
      ContentStr(TRUE, JsonObject(FullAnswer)),
      ContentStr(FALSE, JsonObject(EmptyDict)),
      ContentStr(FALSE, JsonList),
      ContentStr(FALSE, NotJson) }

ToolCallLists ==
    { << ToolCall(1, "get_dependency_info", Arguments({ "ga" })) >>,
      << ToolCall(1, "get_changelog", Arguments({ "ga", "version" })),
         ToolCall(2, "get_release_date", Arguments({ "ga" })) >>,
      << ToolCall(1, "check_version_compatibility", Arguments({ "ga" })) >>,
      << ToolCall(1, "get_dependency_info", Arguments({ "ga" })),
         ToolCall(2, "get_changelog", NotJson) >> }

\* what self.client.chat.completions.create can do
Responses ==
    { [ kind |-> "raise" ] }
    \cup { [ kind |-> "message", content |-> c, tool_calls |-> << >> ] : c \in Contents }
    \cup { [ kind |-> "message", content |-> NoContent, tool_calls |-> t ] :
               t \in ToolCallLists }

InitAnalysis ==
    /\ nodes = EmptyDict
    /\ order = << >>
    /\ root_project = NoneGA
    /\ depth_parents = EmptyDict
    /\ pos = 0
    /\ blank_tail = FALSE
    /\ pc = "main"
    /\ req \in { [ op |-> "main", vulnerabilities |-> v ] : v \in VulnerabilityLists }
    /\ rec = NoQuery
    /\ NoAnalysis

\* the vulnerability main's loop is at
Vuln == req.vulnerabilities[vuln_index + 1]

\* main's try/except around analyze_vulnerability, which ended with
\* outcome: the recommendation is stored, or the fallback of the except
\* clause, and the loop goes to the next vulnerability
Finish(outcome) ==
    /\ rec' = outcome
    /\ results' = Put(results, Vuln.vulnerable_ga,
                      IF outcome.outcome = "return" THEN outcome.value
                      ELSE MainFallback(Vuln))
    /\ vuln_index' = vuln_index + 1
    /\ pc' = "main"

\* main's loop takes the next vulnerability and calls analyze_vulnerability:
\* _build_context, _prefetch_changelogs (which raises when prefetch_raises),
\* messages = [system, user]
BeginAnalysis(prefetch_raises) ==
    /\ pc = "main"
    /\ vuln_index < Len(req.vulnerabilities)
    /\ iterations' = 0
    /\ pending' = << >>
    /\ response' = NoQuery
    /\ IF prefetch_raises
       THEN /\ messages' = << >>
            /\ Finish(Raise("Exception"))
       ELSE /\ messages' = << [ role |-> "system" ], [ role |-> "user" ] >>
            /\ pc' = "request"
            /\ UNCHANGED << rec, results, vuln_index >>
    /\ UNCHANGED << graph_vars, req >>

\* ModelRequest as it would be if the loop ran range(max_iterations + 1)
ModelRequestOneMore(resp) ==
    /\ pc = "request"
    /\ iterations <= max_iterations
    /\ iterations' = iterations + 1
    /\ response' = resp
    /\ IF resp.kind = "raise"
       THEN /\ Finish(Raise("APIError"))
            /\ UNCHANGED << messages, pending >>
       ELSE IF resp.tool_calls = << >>
       THEN /\ Finish(_parse_response(resp.content, Vuln))
            /\ UNCHANGED << messages, pending >>
       ELSE /\ messages' = Append(messages, [ role |-> "assistant",
                                              tool_calls |-> Len(resp.tool_calls) ])
            /\ pending' = resp.tool_calls
            /\ pc' = "tools"
            /\ UNCHANGED << rec, results, vuln_index >>
    /\ UNCHANGED << graph_vars, req >>

\* one model request of the loop, and what follows it up to the first tool
\* execution
ModelRequest(resp) ==
    /\ pc = "request"
    /\ iterations < max_iterations
    /\ iterations' = iterations + 1
    /\ response' = resp
    /\ IF resp.kind = "raise"
       THEN /\ Finish(Raise("APIError"))
            /\ UNCHANGED << messages, pending >>
       ELSE IF resp.tool_calls = << >>
       THEN /\ Finish(_parse_response(resp.content, Vuln))
            /\ UNCHANGED << messages, pending >>
       ELSE /\ messages' = Append(messages, [ role |-> "assistant",
                                              tool_calls |-> Len(resp.tool_calls) ])
            /\ pending' = resp.tool_calls
            /\ pc' = "tools"
            /\ UNCHANGED << rec, results, vuln_index >>
    /\ UNCHANGED << graph_vars, req >>

\* the tool loop as it would be if it stopped after the first tool call
ExecuteToolFirstOnly ==
    /\ pc = "tools"
    /\ pending # << >>
    /\ LET tool_call == Head(pending)
           result == _execute_tool(tool_call)
       IN IF result.outcome = "raise"
          THEN /\ Finish(result)
               /\ UNCHANGED << messages, pending >>
          ELSE /\ messages' = Append(messages, [ role |-> "tool",
                                                 tool_call_id |-> tool_call.id,
                                                 content |-> result.value ])
               /\ pending' = << >>
               /\ pc' = "request"
               /\ UNCHANGED << rec, results, vuln_index >>
    /\ UNCHANGED << graph_vars, req, iterations, response >>

\* the next tool call of the round: _execute_tool, and its result appended
ExecuteTool ==
    /\ pc = "tools"
    /\ pending # << >>
    /\ LET tool_call == Head(pending)
           result == _execute_tool(tool_call)
       IN IF result.outcome = "raise"
          THEN /\ Finish(result)
               /\ UNCHANGED << messages, pending >>
          ELSE /\ messages' = Append(messages, [ role |-> "tool",
                                                 tool_call_id |-> tool_call.id,
                                                 content |-> result.value ])
               /\ pending' = Tail(pending)
               /\ pc' = IF Tail(pending) = << >> THEN "request" ELSE "tools"
               /\ UNCHANGED << rec, results, vuln_index >>
    /\ UNCHANGED << graph_vars, req, iterations, response >>

\* the for loop has run max_iterations times: _default_recommendation
ReturnDefault ==
    /\ pc = "request"
    /\ iterations = max_iterations
    /\ Finish(_default_recommendation(Vuln))
    /\ UNCHANGED << graph_vars, req, messages, iterations, pending, response >>

NextAnalysis ==
    \/ \E prefetch_raises \in BOOLEAN : BeginAnalysis(prefetch_raises)
    \/ \E resp \in Responses : ModelRequest(resp)
    \/ ExecuteTool
    \/ ReturnDefault

SpecAnalysis == InitAnalysis /\ [][NextAnalysis]_vars

\* every call of the model and every tool execution returns or raises
FairAnalysis == SpecAnalysis /\ WF_vars(NextAnalysis)

(***************************************************************************)
(* main.py: a run from the scan report to the end of the analysis phase.   *)
(* The report is the list under "vulnerabilities" of the JFrog JSON; an    *)
(* entry has a component string and a list of fix versions.  The entries   *)
(* are the first sample vulnerability, a second entry for the same         *)
(* component (another CVE), an entry for another component, and an entry   *)
(* whose component has no group.                                           *)
(***************************************************************************)
ScanEntry(component, fixed_versions) == [ component |-> component, fixed_versions |-> fixed_versions ]

TomcatEntry == ScanEntry(Content(TomcatGA, V_10_1_42), << V_10_1_45, V_10_1_44, V_10_1_43 >>)

TomcatSecondEntry == ScanEntry(Content(TomcatGA, V_10_1_42), << V_10_1_43 >>)

JacksonEntry == ScanEntry(Content(JacksonGA, V_2_19_1), << >>)

ArtifactOnlyEntry == ScanEntry(TomcatGA[2] \o << ":" >> \o V_10_1_42, << V_10_1_45 >>)

ScanReports ==
    { << TomcatEntry >>,
      << TomcatEntry, TomcatSecondEntry >>,
      << TomcatEntry, JacksonEntry >>,
      << ArtifactOnlyEntry, TomcatEntry >>,
      << ArtifactOnlyEntry >> }

\* load_jfrog_vulnerabilities on the entries of a report
RECURSIVE load_jfrog_vulnerabilities(_)
load_jfrog_vulnerabilities(entries) ==
    IF entries = << >> THEN << >>
    ELSE LET vuln == Head(entries)
             parts == Split(vuln.component, ":")
             rest == load_jfrog_vulnerabilities(Tail(entries))
         IN IF Len(parts) >= 3
            THEN << JFrogVulnerability(<< parts[1], parts[2] >>, parts[3],
                                       vuln.fixed_versions) >> \o rest
            ELSE rest

InitRun ==
    /\ nodes = EmptyDict
    /\ order = << >>
    /\ root_project = NoneGA
    /\ depth_parents = EmptyDict
    /\ pos = 0
    /\ blank_tail = FALSE
    /\ pc = "load"
    /\ req \in { [ op |-> "main", scan |-> s, vulnerabilities |-> << >> ] : s \in ScanReports }
    /\ rec = NoQuery
    /\ NoAnalysis

\* main, step 2
LoadJfrogVulnerabilities ==
    /\ pc = "load"
    /\ req' = [ req EXCEPT !.vulnerabilities = load_jfrog_vulnerabilities(req.scan) ]
    /\ pc' = "main"
    /\ UNCHANGED << graph_vars, rec >>
    /\ UNCHANGED analysis_vars

NextRun ==
    \/ LoadJfrogVulnerabilities
    \/ NextAnalysis

SpecRun == InitRun /\ [][NextRun]_vars

(***************************************************************************)
(* _calculate_depth and _extract_ga_version applied to single lines: every *)
(* non-blank line of up to MaxGlyphs tokens over the tree glyphs, a space  *)
(* and a content character, every non-blank line of up to MaxChars tokens  *)
(* over a content character, the colon, the parentheses and a space, and   *)
(* lines of the format of the tree with packaging and classifier fields    *)
(* and annotations.                                                        *)
(***************************************************************************)
MaxGlyphs == 3

MaxChars == 5

\* the sequences of length at most n over the tokens of alphabet
RECURSIVE Strings(_, _)
Strings(alphabet, n) ==
    IF n = 0 THEN { << >> }
    ELSE LET shorter == Strings(alphabet, n - 1)
         IN shorter \cup { Append(s, c) : s \in shorter, c \in alphabet }

Annotation == << SPACE, "(", "version", SPACE, "managed", SPACE, "from", SPACE, "1", ":", "0", ")" >>

FormatLines ==
    { Indent \o Indent \o BranchMid \o Content(TomcatGA, V_10_1_42),
      Indent \o Indent \o BranchLast \o Content(TomcatGA, V_10_1_42),
      << SPACE, SPACE, SPACE, SPACE >> \o BranchLast \o Content(TomcatGA, V_10_1_42),
      BranchMid \o TomcatGA[1] \o << ":" >> \o TomcatGA[2] \o << ":", "jar", ":" >> \o V_10_1_42,
      BranchMid \o TomcatGA[1] \o << ":" >> \o TomcatGA[2]
          \o << ":", "jar", ":", "tests", ":" >> \o V_10_1_42 \o << ":", "compile" >>,
      BranchMid \o Content(TomcatGA, V_10_1_42) \o Annotation,
      BranchMid \o TomcatGA[1] \o Annotation \o << ":" >> \o TomcatGA[2]
          \o << ":" >> \o V_10_1_42 \o Annotation,
      BranchMid \o Content(TomcatGA, V_10_1_42) \o << SPACE, "(", "optional" >>,
      Content(RootGA, V_1_2_39_SNAPSHOT) \o << SPACE, VERT, SPACE, TEE >> }

SampleLines ==
    { l \in Strings({ VERT, TEE, ELBOW, HORIZ, SPACE, "a" }, MaxGlyphs) : ~IsBlank(l) }
    \cup { l \in Strings({ "a", ":", "(", ")", SPACE }, MaxChars) : ~IsBlank(l) }
    \cup FormatLines

InitLine ==
    /\ nodes = EmptyDict
    /\ order = << >>
    /\ root_project = NoneGA
    /\ depth_parents = EmptyDict
    /\ pos = 0
    /\ blank_tail = FALSE
    /\ pc = "called"
    /\ req \in { [ op |-> "line", line |-> l ] : l \in SampleLines }
    /\ rec = NoQuery
    /\ NoAnalysis

CalculateDepth ==
    /\ pc = "called"
    /\ rec' = [ op |-> "_calculate_depth", depth |-> _calculate_depth(req.line) ]
    /\ pc' = "answered"
    /\ UNCHANGED << graph_vars, req >>
    /\ UNCHANGED analysis_vars

ExtractGaVersion ==
    /\ pc = "called"
    /\ LET e == _extract_ga_version(req.line)
       IN rec' = [ op |-> "_extract_ga_version", ga |-> e[1], version |-> e[2] ]
    /\ pc' = "answered"
    /\ UNCHANGED << graph_vars, req >>
    /\ UNCHANGED analysis_vars

NextLine ==
    \/ CalculateDepth
    \/ ExtractGaVersion

SpecLine == InitLine /\ [][NextLine]_vars

(***************************************************************************)
(* Properties of the parser.                                               *)
(***************************************************************************)
Keys == DOMAIN nodes

Parsed == pc # "parsing"

\* C1: once parse_tree_text has finished, every node other than the root
\* has depth >= 1 and a non-empty parents list, and the root node has an
\* empty parents list.
C1_NonRootNodesHaveParent ==
    Parsed =>
        \A k \in Keys :
            /\ k # root_project => (nodes[k].depth >= 1 /\ nodes[k].parents # << >>)
            /\ k = root_project => nodes[k].parents = << >>

\* C2: whenever there is a root identity, the node stored under
\* root_project has depth 0 and is_direct = TRUE.
C2_RootIsDepthZeroAndDirect ==
    (root_project # NoneGA /\ Keys # {}) =>
        /\ root_project \in Keys
        /\ nodes[root_project].depth = 0
        /\ nodes[root_project].is_direct

\* C3: once root_project has been set, no later line changes it.
C3_RootIsNeverRedefined ==
    [][root_project # NoneGA => root_project' = root_project]_vars

\* the line is accepted: it is not skipped by either "continue"
Accepted(line) == ~IsBlank(line) /\ _extract_ga_version(line)[1] # NoneGA

InUnitInterval(x) == ~RatLess(x, Zero) /\ ~RatLess(One, x)

\* C5: after _calculate_scores on a non-empty graph every node's
\* centrality_score and impact_score lie in [0, 1].
C5_ScoresInUnitInterval ==
    (Parsed /\ Keys # {}) =>
        \A k \in Keys :
            /\ InUnitInterval(nodes[k].centrality_score)
            /\ InUnitInterval(nodes[k].impact_score)

\* C5 witness: a direct node at depth 0 of maximal degree, whose impact
\* before the clamp is 1 * 1 * 1.2.
C5_Witness ==
    /\ Parsed
    /\ \E k \in Keys :
          /\ nodes[k].depth = 0
          /\ nodes[k].is_direct
          /\ nodes[k].centrality_score = One
          /\ nodes[k].impact_score = One

(***************************************************************************)
(* Properties of the upgrade strategy engine.  They are read off the state *)
(* in which a call of get_upgrade_strategy has returned or raised.         *)
(***************************************************************************)
Answered == pc = "answered" /\ req.op = "get_upgrade_strategy"

Returned(strategy) == rec.outcome = "return" /\ rec.strategy = strategy

\* the node asked about is in the graph, is not direct and has a parent
TransitiveWithParent ==
    /\ req.vulnerable_ga \in Keys
    /\ ~nodes[req.vulnerable_ga].is_direct
    /\ nodes[req.vulnerable_ga].parents # << >>

FirstParent == nodes[req.vulnerable_ga].parents[1]

\* the caller's map holds a non-empty list for key p
HasAlternatives(p) ==
    /\ p \in DOMAIN req.available_parent_versions
    /\ req.available_parent_versions[p] # << >>

Major(v) == parse_version(v)[1]

Minor(v) == parse_version(v)[2]

SameMajor == Major(req.vulnerable_version) = Major(req.target_version)

SameMinor == Minor(req.vulnerable_version) = Minor(req.target_version)

\* C6: for a key whose node has is_direct = TRUE the engine returns
\* DIRECT_UPGRADE of the vulnerable key to the target version, whatever the
\* override table and the alternatives say, with risk LOW for a patch jump,
\* MEDIUM for a minor jump and HIGH for a major jump.
C6_DirectNodeGetsDirectUpgrade ==
    (Answered /\ req.vulnerable_ga \in Keys /\ nodes[req.vulnerable_ga].is_direct) =>
        /\ Returned("DIRECT_UPGRADE")
        /\ rec.upgrade_target_ga = req.vulnerable_ga
        /\ rec.upgrade_target_version = req.target_version
        /\ rec.risk_level = IF ~SameMajor THEN "HIGH"
                            ELSE IF ~SameMinor THEN "MEDIUM"
                            ELSE "LOW"

\* C6 witness: a direct node that has a parent, is in the override table
\* and for whose parent alternatives are supplied.
C6_Witness ==
    /\ Answered
    /\ req.vulnerable_ga = TomcatGA
    /\ TomcatGA \in Keys
    /\ nodes[TomcatGA].is_direct
    /\ nodes[TomcatGA].parents # << >>
    /\ HasAlternatives(nodes[TomcatGA].parents[1])
    /\ Returned("DIRECT_UPGRADE")
    /\ rec.risk_level = "MEDIUM"

\* C7: for a non-direct node with a parent, no alternatives for its first
\* parent, and a key of the override table, the engine returns BOM_OVERRIDE,
\* with risk LOW when major and minor are the same and MEDIUM otherwise.
C7_BomOverride ==
    (Answered /\ TransitiveWithParent /\ ~HasAlternatives(FirstParent)
        /\ InBomProperties(req.vulnerable_ga)) =>
        /\ Returned("BOM_OVERRIDE")
        /\ rec.risk_level = IF SameMajor /\ SameMinor THEN "LOW" ELSE "MEDIUM"

\* C7 witness: the first parent has an empty list of alternatives, and the
\* minor differs within the same major.
C7_Witness ==
    /\ Answered
    /\ TransitiveWithParent
    /\ FirstParent \in DOMAIN req.available_parent_versions
    /\ ~HasAlternatives(FirstParent)
    /\ InBomProperties(req.vulnerable_ga)
    /\ SameMajor /\ ~SameMinor
    /\ Returned("BOM_OVERRIDE")
    /\ rec.risk_level = "MEDIUM"

\* C8: for a non-direct node with a parent the engine returns
\* PARENT_UPGRADE exactly when the map holds a non-empty list for the
\* first-recorded parent, and then with risk LOW, the first parent as the
\* upgrade target and the first alternative as the target version.
C8_ParentUpgrade ==
    (Answered /\ TransitiveWithParent) =>
        /\ Returned("PARENT_UPGRADE") <=> HasAlternatives(FirstParent)
        /\ HasAlternatives(FirstParent) =>
              /\ rec.risk_level = "LOW"
              /\ rec.upgrade_target_ga = FirstParent
              /\ rec.upgrade_target_version = req.available_parent_versions[FirstParent][1]

\* C8 witness: a key of the override table with two parents, alternatives
\* supplied for the first of them only.
C8_Witness ==
    /\ Answered
    /\ TransitiveWithParent
    /\ InBomProperties(req.vulnerable_ga)
    /\ Len(nodes[req.vulnerable_ga].parents) = 2
    /\ HasAlternatives(FirstParent)
    /\ ~HasAlternatives(nodes[req.vulnerable_ga].parents[2])
    /\ Returned("PARENT_UPGRADE")

C10_UnknownKeyGetsDirectUpgrade ==
    (Answered /\ req.vulnerable_ga \notin Keys) => Returned("DIRECT_UPGRADE")

\* the node asked about is in the graph, is not direct and has no parent
Orphan ==
    /\ req.vulnerable_ga \in Keys
    /\ ~nodes[req.vulnerable_ga].is_direct
    /\ nodes[req.vulnerable_ga].parents = << >>

\* C11: for a node that is not direct and has an empty parents list the
\* engine returns DIRECT_UPGRADE of the vulnerable key to the target version
\* with risk by jump type, whether or not the key is in the override table
\* and whatever alternatives are supplied.
C11_OrphanGetsDirectUpgrade ==
    (Answered /\ Orphan) =>
        /\ Returned("DIRECT_UPGRADE")
        /\ rec.upgrade_target_ga = req.vulnerable_ga
        /\ rec.upgrade_target_version = req.target_version
        /\ rec.risk_level = DirectRisk(version_jump_type(req.vulnerable_version,
                                                         req.target_version))

\* C11 witness: an orphan that is a key of the override table, asked about
\* with a map that holds alternatives.
C11_Witness ==
    /\ Answered
    /\ Orphan
    /\ InBomProperties(req.vulnerable_ga)
    /\ \E p \in DOMAIN req.available_parent_versions :
           req.available_parent_versions[p] # << >>
    /\ Returned("DIRECT_UPGRADE")
    /\ rec.risk_level = "MEDIUM"

(***************************************************************************)
(* Properties of the version utilities.                                    *)
(***************************************************************************)
JumpAnswered == pc = "answered" /\ req.op = "version_jump_type"

\* the positions among major (1), minor (2), patch (3) at which the parsed
\* versions differ
DifferingComponents(v1, v2) ==
    { i \in 1..3 : parse_version(v1)[i] # parse_version(v2)[i] }

\* the jump named by the highest-order differing component
JumpByHighestDifference(v1, v2) ==
    LET d == DifferingComponents(v1, v2)
    IN IF 1 \in d THEN "major"
       ELSE IF 2 \in d THEN "minor"
       ELSE "patch"

\* C12: version_jump_type is decided by the highest-order parsed component
\* that differs: "major" when the majors differ, otherwise "minor" when the
\* minors differ, otherwise "patch" (also for identical versions and for
\* versions that differ only in the qualifier); 10.1.42 -> 10.1.45 is patch,
\* 10.1.42 -> 10.2.0 is minor, 2.9.0 -> 3.0.0 is major.
C12_JumpTypeByHighestDifference ==
    JumpAnswered =>
        /\ rec = JumpByHighestDifference(req.from_v, req.to_v)
        /\ req.from_v = req.to_v => rec = "patch"
        /\ (req.from_v = V_2_19_1 /\ req.to_v = V_2_19_1_SNAPSHOT) => rec = "patch"
        /\ (req.from_v = V_10_1_42 /\ req.to_v = V_10_1_45) => rec = "patch"
        /\ (req.from_v = V_10_1_42 /\ req.to_v = V_10_2_0) => rec = "minor"
        /\ (req.from_v = V_2_9_0 /\ req.to_v = V_3_0_0) => rec = "major"

\* C12 witness: major and minor both differ, and the answer is "major".
C12_Witness ==
    /\ JumpAnswered
    /\ req.from_v = V_2_9_0
    /\ req.to_v = V_3_0_0
    /\ DifferingComponents(req.from_v, req.to_v) = { 1, 2 }
    /\ rec = "major"

(***************************************************************************)
(* Properties of the queries of the graph.                                 *)
(***************************************************************************)
\* the result None of get_dependency_info
NotFound == [ found |-> FALSE ]

\* the error marker of get_llm_summary
IsErrorMarker(r) == "error" \in DOMAIN r

\* a summary, as opposed to the error marker or a raised exception
IsSummary(r) == { "project", "total_dependencies", "high_risk_dependencies",
                  "all_dependencies" } \subseteq DOMAIN r

\* C13: get_dependency_info on a key that is not in the graph returns None,
\* raises nothing and adds no node; get_llm_summary on a graph with no node
\* returns the error marker, and on a graph with a node it returns a summary
\* and not the error marker.
C13_AbsentKeyAndEmptyGraph ==
    [][ (pc = "parsed" /\ pc' = "answered") =>
          /\ (req'.op = "get_dependency_info" /\ req'.ga \notin DOMAIN nodes) =>
                 (rec' = NotFound /\ nodes' = nodes /\ order' = order)
          /\ (req'.op = "get_llm_summary" /\ DOMAIN nodes = {}) =>
                 (IsErrorMarker(rec') /\ ~IsSummary(rec'))
          /\ (req'.op = "get_llm_summary" /\ DOMAIN nodes # {}) =>
                 (IsSummary(rec') /\ ~IsErrorMarker(rec')
                    /\ rec'.total_dependencies = Cardinality(DOMAIN nodes))
      ]_vars

\* C13 witness: on a graph with nodes, a key that is not among them was
\* asked about and the answer is None.
C13_Witness ==
    /\ pc = "answered"
    /\ req.op = "get_dependency_info"
    /\ Keys # {}
    /\ req.ga \notin Keys
    /\ rec = NotFound

(***************************************************************************)
(* Properties of parsing a text twice.                                     *)
(***************************************************************************)
\* both calls have returned
ParsedTwice == pc = "parsed" /\ rec # NoQuery

C15_QueriesLeaveGraphUnchanged ==
    [][ Parsed =>
          /\ root_project' = root_project
          /\ DOMAIN nodes' = Keys
          /\ \A k \in Keys :
                /\ nodes'[k].version = nodes[k].version
                /\ nodes'[k].depth = nodes[k].depth
                /\ nodes'[k].is_direct = nodes[k].is_direct
                /\ nodes'[k].parents = nodes[k].parents
                /\ nodes'[k].children = nodes[k].children
                /\ nodes'[k].centrality_score = nodes[k].centrality_score
                /\ nodes'[k].impact_score = nodes[k].impact_score
      ]_vars

\* C15 witness: the summary of a graph with two high-risk nodes has been
\* built (the list was sorted), and the graph has a node with two parents.
C15_Witness ==
    /\ pc = "answered"
    /\ req.op = "get_llm_summary"
    /\ IsSummary(rec)
    /\ Len(rec.high_risk_dependencies) >= 2
    /\ \E k \in Keys : Len(nodes[k].parents) = 2

(***************************************************************************)
(* Properties of the lines the parser skips.                               *)
(***************************************************************************)
\* the line is blank, or made of tree glyphs and whitespace only, or has
\* fewer than three colon-separated fields
Skippable(line) ==
    \/ \A i \in 1..Len(line) : line[i] \in Whitespace
    \/ \A i \in 1..Len(line) : line[i] \in PrefixChars
    \/ Count(line, ":") < 2

\* C16: parse_tree_text does not raise; a line that is blank, consists of
\* tree glyphs only or has fewer than three colon-separated fields produces
\* no node and no edge and leaves the ancestor chain, the root and every
\* node as they are, and the loop goes on to the next line.
C16_MalformedLinesAreSkipped ==
    [][ \A line \in Lines :
          (ParseLine(line) /\ Skippable(line)) =>
              /\ nodes' = nodes
              /\ order' = order
              /\ depth_parents' = depth_parents
              /\ root_project' = root_project
              /\ pc' = "parsing"
              /\ pos' = pos + 1
      ]_vars

\* C16 witness: a blank line has just been consumed while the graph has
\* nodes and the chain has two entries, and the loop is still running.
C16_Witness ==
    /\ pc = "parsing"
    /\ blank_tail
    /\ Cardinality(Keys) >= 2
    /\ Cardinality(DOMAIN depth_parents) >= 2
    /\ pos < MaxLines

(***************************************************************************)
(* Properties of the summary and of the risk label.                        *)
(***************************************************************************)
SummaryAnswered == pc = "answered" /\ req.op = "get_llm_summary" /\ IsSummary(rec)

\* the nodes whose impact_score is > 0.5
HighRiskKeys == { k \in Keys : RatLess(Rat(5, 10), nodes[k].impact_score) }

\* the keys of the entries of the high-risk list of the summary
ListedKeys == { rec.high_risk_dependencies[i].ga : i \in 1..Len(rec.high_risk_dependencies) }

\* C17: in the summary of a non-empty graph the high-risk list holds only
\* nodes with impact_score > 0.5, is sorted by impact score in
\* non-increasing order, has at most 10 entries, and every node with
\* impact_score > 0.5 that is left out has an impact score no greater than
\* the smallest one listed.
C17_HighRiskList ==
    SummaryAnswered =>
        LET L == rec.high_risk_dependencies
        IN /\ \A i \in 1..Len(L) :
                 /\ L[i].ga \in HighRiskKeys
                 /\ L[i].impact_score = nodes[L[i].ga].impact_score
           /\ \A i \in 1..(Len(L) - 1) :
                 ~RatLess(L[i].impact_score, L[i + 1].impact_score)
           /\ Len(L) <= 10
           /\ \A k \in HighRiskKeys \ ListedKeys :
                 \A i \in 1..Len(L) :
                     ~RatLess(L[i].impact_score, nodes[k].impact_score)

\* C17 witness: more than ten nodes are high-risk, ten are listed, and the
\* first node of the dict is one of those left out.
C17_Witness ==
    /\ SummaryAnswered
    /\ Cardinality(HighRiskKeys) > 10
    /\ Len(rec.high_risk_dependencies) = 10
    /\ order[1] \in HighRiskKeys \ ListedKeys

InfoAnswered == pc = "answered" /\ req.op = "get_dependency_info" /\ req.ga \in Keys

\* C18: for a known key the risk label of get_dependency_info is decided by
\* the node's impact_score alone: HIGH when it is > 0.7, MEDIUM when it is
\* > 0.4 and not > 0.7, LOW otherwise; exactly 0.7 is MEDIUM and exactly 0.4
\* is LOW.
C18_RiskLabelByImpactScore ==
    InfoAnswered =>
        LET s == nodes[req.ga].impact_score
        IN /\ rec.found
           /\ (10 * s[1] > 7 * s[2]) => rec.risk_assessment = "HIGH"
           /\ (10 * s[1] > 4 * s[2] /\ 10 * s[1] <= 7 * s[2]) =>
                  rec.risk_assessment = "MEDIUM"
           /\ (10 * s[1] <= 4 * s[2]) => rec.risk_assessment = "LOW"
           /\ s = << 7, 10 >> => rec.risk_assessment = "MEDIUM"
           /\ s = << 2, 5 >> => rec.risk_assessment = "LOW"

\* C18 witness: a node whose impact_score is exactly 0.7 (depth 3 in a chain
\* of five), labelled MEDIUM.
C18_Witness ==
    /\ InfoAnswered
    /\ nodes[req.ga].impact_score = << 7, 10 >>
    /\ rec.risk_assessment = "MEDIUM"

(***************************************************************************)
(* Properties of the analysis phase.                                       *)
(***************************************************************************)
\* main's loop has dealt with a vulnerability
Analysed == pc = "main" /\ vuln_index > 0

LastVuln == req.vulnerabilities[vuln_index]

Recorded == results[LastVuln.vulnerable_ga]

ModelCallRaised == response # NoQuery /\ response.kind = "raise"

\* the model proposed tool calls in every round, and all were executed
BudgetExhausted ==
    /\ iterations = max_iterations
    /\ response # NoQuery
    /\ response.kind = "message"
    /\ response.tool_calls # << >>
    /\ pending = << >>

\* the final answer is no string, no JSON, or no JSON object
AnswerUnparsable ==
    /\ response # NoQuery
    /\ response.kind = "message"
    /\ response.tool_calls = << >>
    /\ \/ response.content = NoContent
       \/ ~response.content.json.parses
       \/ ~response.content.json.object

ServiceFailed == ModelCallRaised \/ BudgetExhausted \/ AnswerUnparsable

\* v1 is a higher version than v2, by the numeric components
Higher(v1, v2) ==
    LET p1 == parse_version(v1)
        p2 == parse_version(v2)
    IN \/ p1[1] > p2[1]
       \/ p1[1] = p2[1] /\ p1[2] > p2[2]
       \/ p1[1] = p2[1] /\ p1[2] = p2[2] /\ p1[3] > p2[3]

IsHighest(v, versions) ==
    /\ \E i \in 1..Len(versions) : versions[i] = v
    /\ \A i \in 1..Len(versions) : ~Higher(versions[i], v)

ManualReviewMarkers ==
    { "Unknown - manual review required", "Manual review required" }

HasManualReviewMarker(r) ==
    \E i \in 1..Len(r.breaking_changes) : r.breaking_changes[i] \in ManualReviewMarkers

IsDeterministicFallback(r, vuln) ==
    /\ IsHighest(r.recommended_version, vuln.fixed_versions)
    /\ r.risk_level = "HIGH"
    /\ HasManualReviewMarker(r)

\* C19: when the model call raised, the round budget was exhausted or the
\* final answer could not be parsed, the recommendation recorded for the
\* vulnerability (which lists at least one fix version) has the highest of
\* the listed fix versions, risk HIGH and a manual-review-required marker
C19_FailureGivesDeterministicFallback ==
    (Analysed /\ ServiceFailed /\ LastVuln.fixed_versions # << >>)
        => /\ LastVuln.vulnerable_ga \in DOMAIN results
           /\ IsDeterministicFallback(Recorded, LastVuln)

\* an analysis is running
Analysing == pc \in { "request", "tools" }

\* the tenth round is over and the model proposed tool calls in it
TenthRoundOver == pc = "request" /\ iterations = max_iterations

\* C20: analyze_vulnerability issues at most max_iterations (10) model
\* requests; when the tenth round is over with tool calls, the next step
\* returns the default recommendation without another request; and every
\* analysis that was started ends, given that every model call and tool
\* execution returns or raises
C20_AnalysisTerminates ==
    /\ [](iterations <= max_iterations)
    /\ [][TenthRoundOver =>
            /\ iterations' = iterations
            /\ response' = response
            /\ messages' = messages
            /\ rec' = _default_recommendation(Vuln)
            /\ pc' = "main"]_vars
    /\ (Analysing ~> Analysed)

\* ten requests were made, the tenth answer proposed tool calls, they were
\* executed, and the default recommendation is the one recorded
C20_Witness ==
    /\ Analysed
    /\ BudgetExhausted
    /\ Len(messages) >= 2 + 2 * max_iterations
    /\ rec = _default_recommendation(LastVuln)
    /\ rec.outcome = "return"
    /\ Recorded = rec.value

(***************************************************************************)
(* Properties of a run.                                                    *)
(***************************************************************************)
\* the loop of step 3 has dealt with every vulnerability that was loaded
AnalysisPhaseOver == pc = "main" /\ vuln_index = Len(req.vulnerabilities)

\* the key of a report entry, as the report names the component
EntryKey(entry) == SubSeq(Split(entry.component, ":"), 1, 2)

\* C21: when the analysis phase ends, every entry of the scan report has a
\* recommendation in the result set: one under the key of its component,
\* and as many recommendations as there are entries
C21_NoVulnerabilityLost ==
    AnalysisPhaseOver =>
        /\ \A i \in 1..Len(req.scan) : EntryKey(req.scan[i]) \in DOMAIN results
        /\ Cardinality(DOMAIN results) = Len(req.scan)

(***************************************************************************)
(* Properties of the edge relation.                                        *)
(***************************************************************************)
DuplicateFree(s) == \A i, j \in 1..Len(s) : s[i] = s[j] => i = j

\* C22: after every line the parser has processed, no key occurs twice in
\* a node's parents or children, every key listed there is a node of the
\* graph, and p is in parents(n) if and only if n is in children(p)
C22_EdgesDuplicateFreeAndSymmetric ==
    \A n \in Keys :
        /\ DuplicateFree(nodes[n].parents)
        /\ DuplicateFree(nodes[n].children)
        /\ \A i \in 1..Len(nodes[n].parents) : nodes[n].parents[i] \in Keys
        /\ \A i \in 1..Len(nodes[n].children) : nodes[n].children[i] \in Keys
        /\ \A p \in Keys : InSeq(p, nodes[n].parents) <=> InSeq(n, nodes[p].children)

\* during the parse a node has two parents, is listed once by each of them
\* as a child, and a further line has been processed since
C22_Witness ==
    /\ pc = "parsing"
    /\ pos = 4
    /\ { StarterGA, TomcatGA, RootGA } \subseteq Keys
    /\ nodes[TomcatGA].parents = << StarterGA, RootGA >>
    /\ nodes[StarterGA].children = << TomcatGA >>
    /\ InSeq(TomcatGA, nodes[RootGA].children)

(***************************************************************************)
(* Properties of depth and directness.                                     *)
(***************************************************************************)
\* C23: every node other than the root that has a parent is one level
\* below its first-recorded parent
C23_DepthIsFirstParentDepthPlusOne ==
    \A n \in Keys :
        (n # root_project /\ nodes[n].parents # << >>)
            => nodes[n].depth = nodes[nodes[n].parents[1]].depth + 1

(***************************************************************************)
(* Properties of the ancestor chain.                                       *)
(***************************************************************************)
\* C24: when a line has been accepted at depth d (d = 0 included), the
\* chain holds the key of the line at d and no entry for a depth > d
C24_ChainHoldsNothingDeeper ==
    [][\A line \in Lines :
          (ParseLine(line) /\ Accepted(line))
              => /\ depth_parents'[_calculate_depth(line)] = _extract_ga_version(line)[1]
                 /\ \A d \in DOMAIN depth_parents' : d <= _calculate_depth(line)]_vars

(***************************************************************************)
(* Properties of the functions of a line.                                  *)
(***************************************************************************)
DepthAnswered == pc = "answered" /\ rec.op = "_calculate_depth"

\* the position of the first content character of the line (one past the
\* end when there is none)
FirstContent(line) ==
    IF \A i \in 1..Len(line) : line[i] \in PrefixChars THEN Len(line) + 1
    ELSE CHOOSE i \in 1..Len(line) :
             line[i] \notin PrefixChars /\ \A j \in 1..(i - 1) : line[j] \in PrefixChars

\* C25: the depth of a line is the number of vertical connectors before
\* its first content character, plus one if a branch-mid or branch-last
\* glyph stands before the first content character; a line that starts
\* with a content character has depth 0
C25_DepthFromLeadingGlyphs ==
    DepthAnswered =>
        LET line == req.line
            k == FirstContent(line)
        IN /\ rec.depth = Cardinality({ i \in 1..(k - 1) : line[i] = VERT })
                            + (IF \E i \in 1..(k - 1) : line[i] \in { TEE, ELBOW }
                               THEN 1 ELSE 0)
           /\ k = 1 => rec.depth = 0

\* a line with a vertical connector and a branch glyph after its first
\* content character was given depth 0
C25_Witness ==
    /\ DepthAnswered
    /\ \/ req.line = Content(RootGA, V_1_2_39_SNAPSHOT) \o << SPACE, VERT, SPACE, TEE >>
       \/ req.line = << "a", VERT, TEE >>
    /\ rec.depth = 0

ExtractAnswered == pc = "answered" /\ rec.op = "_extract_ga_version"

\* the line without its prefix and its parenthesized annotations
Cleaned(line) == Strip(RemoveParenthetical(Drop(line, FirstContent(line) - 1)))

\* no "(" of s is followed by a ")"
NoAnnotation(s) == \A i, j \in 1..Len(s) : ~(i < j /\ s[i] = "(" /\ s[j] = ")")

\* C26: with the prefix and every parenthesized annotation removed, a line
\* of k >= 3 colon-separated fields yields the key field[0]:field[1], which
\* holds exactly one colon, and the version field[k-1]; a line of fewer
\* than 3 fields yields None
C26_KeyAndVersionFromFields ==
    ExtractAnswered =>
        LET clean == Cleaned(req.line)
            field == Split(clean, ":")
            k == Len(field)
        IN /\ NoAnnotation(clean)
           /\ k >= 3 => /\ rec.ga = << field[1], field[2] >>
                        /\ rec.version = field[k]
                        /\ Count(rec.ga[1] \o << ":" >> \o rec.ga[2], ":") = 1
           /\ k < 3 => /\ rec.ga = NoneGA
                       /\ rec.version = NoVersion

\* a line with packaging, classifier and scope fields and two annotations,
\* one of them between the fields, gave the key of its first two fields
\* and its last field
C26_Witness ==
    /\ ExtractAnswered
    /\ \/ /\ req.line = BranchMid \o TomcatGA[1] \o << ":" >> \o TomcatGA[2]
                \o << ":", "jar", ":", "tests", ":" >> \o V_10_1_42 \o << ":", "compile" >>
          /\ rec.version = << "compile" >>
       \/ /\ req.line = BranchMid \o TomcatGA[1] \o Annotation \o << ":" >> \o TomcatGA[2]
                \o << ":" >> \o V_10_1_42 \o Annotation
          /\ rec.version = V_10_1_42
    /\ rec.ga = TomcatGA

(***************************************************************************)
(* Properties of parse_version.                                            *)
(***************************************************************************)
ParseAnswered == pc = "answered" /\ req.op = "parse_version"

\* the version without the known qualifier token it holds, wherever the
\* token occurs
WithoutQualifier(version) ==
    LET found == { i \in 1..Len(qualifiers) : Contains(version, qualifiers[i]) }
    IN IF found = {} THEN version
       ELSE Remove(version, qualifiers[CHOOSE i \in found : \A j \in found : i <= j])

\* the n-th maximal digit run of s as a number, 0 when there is none
Component(s, n) == IF Len(DigitRuns(s)) >= n THEN ToInt(DigitRuns(s)[n]) ELSE 0

\* C27: major, minor and patch are the first three maximal digit runs of
\* the version without its qualifier token, from left to right, and 0
\* where a run is missing
C27_ComponentsAreFirstThreeDigitRuns ==
    ParseAnswered =>
        \A n \in 1..3 : rec[n] = Component(WithoutQualifier(req.version), n)

Executed == Len(response.tool_calls) - Len(pending)

\* the conversation ends with the assistant message of the round and one
\* tool result for each executed tool call, in the order of the calls
RoundInOrder ==
    LET tool_calls == response.tool_calls
        done == Executed
        base == Len(messages) - done
    IN /\ done >= 0
       /\ base >= 3
       /\ pending = SubSeq(tool_calls, done + 1, Len(tool_calls))
       /\ messages[base].role = "assistant"
       /\ messages[base].tool_calls = Len(tool_calls)
       /\ \A i \in 1..done :
              /\ messages[base + i].role = "tool"
              /\ messages[base + i].tool_call_id = tool_calls[i].id

\* a step that issues a model request
IsModelRequest == iterations' = iterations + 1

\* C29: while the tools of a round run, and when the next request is due,
\* the conversation holds one result per executed tool call in the order
\* of the calls; a model request is issued only when every tool call of
\* the round before has its result; and a response without tool calls
\* ends the analysis in the same step with the outcome of _parse_response,
\* leaving the conversation as it was
C29_RoundsAlternate ==
    /\ []((pc = "tools" \/ (pc = "request" /\ iterations > 0)) => RoundInOrder)
    /\ [](pc = "request" => pending = << >>)
    /\ [][IsModelRequest => (pc = "request" /\ pending = << >>)]_vars
    /\ [][(IsModelRequest /\ response'.kind = "message" /\ response'.tool_calls = << >>)
             => /\ pc' = "main"
                /\ rec' = _parse_response(response'.content, Vuln)
                /\ messages' = messages
                /\ pending' = << >>]_vars
    /\ [][pc = "main" => (pc' = "main" \/ (iterations' = 0 /\ pending' = << >>))]_vars

\* the second request is due: the round before proposed two tool calls and
\* the conversation ends with the assistant message and their two results
C29_Witness ==
    /\ pc = "request"
    /\ iterations = 1
    /\ Len(response.tool_calls) = 2
    /\ Len(messages) = 5
    /\ messages[3].role = "assistant"
    /\ messages[4].role = "tool" /\ messages[4].tool_call_id = 1
    /\ messages[5].role = "tool" /\ messages[5].tool_call_id = 2

(***************************************************************************)
(* Properties of the scorer.                                               *)
(***************************************************************************)
\* the largest depth and the largest degree observed in the graph
LargestDepth == Max({ nodes[k].depth : k \in Keys })

LargestDegree == Max({ Degree(nodes[k]) : k \in Keys })

\* the specified formula, with max_depth the largest depth observed
SpecifiedCentrality(n) ==
    Rat(Degree(nodes[n]), IF LargestDegree >= 1 THEN LargestDegree ELSE 1)

SpecifiedImpact(n) ==
    LET depth_penalty == Rat(nodes[n].depth, LargestDepth + 1)
        weight == RatSub(One, RatMul(Rat(1, 2), depth_penalty))
        boost == IF nodes[n].is_direct THEN Rat(6, 5) ELSE One
        raw == RatMul(RatMul(SpecifiedCentrality(n), weight), boost)
    IN IF RatLess(One, raw) THEN One
       ELSE IF RatLess(raw, Zero) THEN Zero
       ELSE raw

====
